---- MODULE Spec2Model ----
(***************************************************************************)
(* License validation and Paddle subscription webhook lifecycle of the     *)
(* Axon server: LicenseService, LicenseMiddleware, LicenseController and   *)
(* the licenses / processed_events tables.                                 *)
(*                                                                         *)
(* Every datastore statement is one atomic step; the synchronous code      *)
(* between two awaits runs inside the step that resumes it.  Times are in  *)
(* seconds (the millisecond timestamps of the code divided by 1000).       *)
(***************************************************************************)
EXTENDS Integers, Sequences, FiniteSets, TLC

\* ------------------------------------------------------------------ bounds

\* Number of webhook deliveries in flight over one behaviour.
NumDeliveries == 2

\* The clock runs from 0 to MaxTime seconds.
MaxTime == 1

Deliveries == 1..NumDeliveries

\* ------------------------------------------------------------------ strings

\* JavaScript null / undefined of a field that holds no string.
NULL == "<null>"

RECURSIVE TrimStart(_)
TrimStart(s) ==
  IF Len(s) > 0 /\ SubSeq(s, 1, 1) = " " THEN TrimStart(SubSeq(s, 2, Len(s))) ELSE s

RECURSIVE TrimEnd(_)
TrimEnd(s) ==
  IF Len(s) > 0 /\ SubSeq(s, Len(s), Len(s)) = " "
  THEN TrimEnd(SubSeq(s, 1, Len(s) - 1))
  ELSE s

\* String.prototype.trim
Trim(s) == TrimEnd(TrimStart(s))

\* String.prototype.startsWith
StartsWith(s, p) == Len(s) >= Len(p) /\ SubSeq(s, 1, Len(p)) = p

\* String.prototype.endsWith
EndsWith(s, p) == Len(s) >= Len(p) /\ SubSeq(s, Len(s) - Len(p) + 1, Len(s)) = p

\* readString: the trimmed string, or null when the value is no string or blank.
readString(v) == IF v # NULL /\ Len(Trim(v)) > 0 THEN Trim(v) ELSE NULL

\* x || d of JavaScript, for a string or undefined x.
OrDefault(v, d) == IF v = NULL \/ v = "" THEN d ELSE v

\* ------------------------------------------------- license.helpers.ts

PADDLE_ACTIVATING_EVENTS ==
  { "subscription.activated", "subscription.created", "subscription.updated",
    "subscription.resumed", "subscription.trialing", "subscription.past_due" }

PADDLE_DEACTIVATING_EVENTS ==
  { "subscription.canceled", "subscription.cancelled", "subscription.paused",
    "subscription.expired", "subscription.terminated" }

\* A date field that is absent or does not parse (readDate returns null).
NoDate == -1

\* readDate: the parsed date, or NoDate.
readDate(v) == IF v >= 0 THEN v ELSE NoDate

\* The string fields and the date fields of the data object of a Paddle event;
\* a nested value is named by its path (readNestedValue).
DataStringFields ==
  { "id", "subscription_id", "subscription.id", "status", "email",
    "customer.email", "custom_data.email", "custom_data.plan",
    "items.0.price.id", "items.0.price_id" }

DataDateFields ==
  { "current_billing_period.ends_at", "next_billed_at",
    "billing_period.ends_at", "scheduled_change.effective_at" }

\* asRecord(root.data) ?? {} : no field present.
EmptyData ==
  [f \in DataStringFields \cup DataDateFields |->
     IF f \in DataDateFields THEN NoDate ELSE NULL]

\* The first candidate, in order, that passes readString; null when none does.
RECURSIVE FirstString(_, _)
FirstString(data, fields) ==
  IF fields = <<>> THEN NULL
  ELSE IF readString(data[Head(fields)]) # NULL THEN readString(data[Head(fields)])
  ELSE FirstString(data, Tail(fields))

RECURSIVE FirstDate(_, _)
FirstDate(data, fields) ==
  IF fields = <<>> THEN NoDate
  ELSE IF readDate(data[Head(fields)]) # NoDate THEN readDate(data[Head(fields)])
  ELSE FirstDate(data, Tail(fields))

extractSubscriptionId(data) ==
  FirstString(data, <<"id", "subscription_id", "subscription.id">>)

\* 365 * 24 * 60 * 60 * 1000 ms, in seconds.
YearSeconds == 365 * 24 * 60 * 60

extractExpiryDate(data, t) ==
  LET d == FirstDate(data, <<"current_billing_period.ends_at", "next_billed_at",
                             "billing_period.ends_at", "scheduled_change.effective_at">>)
  IN IF d # NoDate THEN d ELSE t + YearSeconds

UpperCaseLetters == "ABCDEFGHIJKLMNOPQRSTUVWXYZ"

LowerCaseLetters == "abcdefghijklmnopqrstuvwxyz"

\* The lower-case letter of each upper-case letter.
LowerCaseOf ==
  [ c \in { SubSeq(UpperCaseLetters, i, i) : i \in 1..Len(UpperCaseLetters) } |->
      LET i == CHOOSE i \in 1..Len(UpperCaseLetters) :
                 SubSeq(UpperCaseLetters, i, i) = c
      IN SubSeq(LowerCaseLetters, i, i) ]

\* String.prototype.toLowerCase, over ASCII.
RECURSIVE toLowerCase(_)
toLowerCase(s) ==
  IF Len(s) = 0 THEN s
  ELSE LET c == SubSeq(s, 1, 1)
       IN (IF c \in DOMAIN LowerCaseOf THEN LowerCaseOf[c] ELSE c)
            \o toLowerCase(SubSeq(s, 2, Len(s)))

\* String.prototype.includes
Includes(s, sub) ==
  \E i \in 1..(Len(s) - Len(sub) + 1) : SubSeq(s, i, i + Len(sub) - 1) = sub

derivePlanFromPriceId(priceId) ==
  IF priceId = NULL THEN "pro"
  ELSE IF Includes(toLowerCase(priceId), "enterprise") THEN "enterprise"
  ELSE IF Includes(toLowerCase(priceId), "business") THEN "business"
  ELSE "pro"

\* A device limit that compares the plan as it is written.
deriveMaxDevices_CaseSensitive(plan) ==
  IF plan = "enterprise" THEN 100
  ELSE IF plan = "business" THEN 10
  ELSE 1

deriveMaxDevices(plan) ==
  IF toLowerCase(plan) = "enterprise" THEN 100
  ELSE IF toLowerCase(plan) = "business" THEN 10
  ELSE 1

resolvePlan(data) ==
  IF readString(data["custom_data.plan"]) # NULL
  THEN readString(data["custom_data.plan"])
  ELSE derivePlanFromPriceId(FirstString(data, <<"items.0.price.id", "items.0.price_id">>))

extractEmail(data) ==
  FirstString(data, <<"email", "customer.email", "custom_data.email">>)

\* Every deactivation stored as "canceled".
mapDeactivationStatus_AlwaysCanceled(eventType) == "canceled"

mapDeactivationStatus(eventType) ==
  IF eventType = "subscription.expired" THEN "expired"
  ELSE IF eventType = "subscription.paused" THEN "paused"
  ELSE "canceled"

\* A key built with the default prefix whatever the configured one.
buildLicenseKey_DefaultPrefix(prefix, random) == "AXON-" \o random

\* buildLicenseKey: the prefix, a dash when it has none, and four random
\* two-byte groups in upper-case hex (random: the groups drawn).
buildLicenseKey(prefix, random) ==
  (IF EndsWith(prefix, "-") THEN prefix ELSE prefix \o "-") \o random

\* ------------------------------------------------- webhook bodies

\* The raw request bodies of the model.
RawBodyList ==
  << "{\"event_id\":\"evt_1\",\"event_type\":\"subscription.created\",\"data\":{\"id\":\"sub_1\",\"email\":\"a@x.io\"}}",
     "{\"event_id\":\"evt_2\",\"event_type\":\"subscription.updated\",\"data\":{\"id\":\"sub_1\",\"status\":\"past_due\",\"next_billed_at\":0}}",
     "{\"event_id\":\"evt_3\",\"event_type\":\"subscription.canceled\",\"data\":{\"id\":\"sub_1\"}}",
     "{\"event_id\":\"evt_4\",\"event_type\":\"subscription.created\",\"data\":{}}",
     "{\"event_id\":\"evt_5\",\"event_type\":\"transaction.completed\",\"data\":{\"id\":\"txn_1\"}}",
     "{\"event_id\":\"evt_6\",\"event_type\":\"subscription.activated\",\"data\":{\"subscription_id\":\" sub_2 \",\"status\":\"active\",\"custom_data\":{\"plan\":\"Enterprise\"},\"current_billing_period\":{\"ends_at\":1}}}",
     "{\"event_id\":\" \",\"event_type\":\"subscription.created\",\"data\":{\"id\":\"sub_1\"}}",
     "[1]",
     "{not json" >>

RawBodies == { RawBodyList[i] : i \in 1..Len(RawBodyList) }

\* The event types of the bodies below: the six activating ones, the five
\* deactivating ones, and others.
EventTypeList ==
  << "subscription.created", "subscription.activated", "subscription.updated",
     "subscription.resumed", "subscription.trialing", "subscription.past_due",
     "subscription.canceled", "subscription.cancelled", "subscription.paused",
     "subscription.expired", "subscription.terminated",
     "transaction.completed", "subscription.imported", "SUBSCRIPTION.CREATED",
     "subscription.canceled.v2", " subscription.paused " >>

\* What their data names the subscription with: data.id of the License of
\* evt_1, no field at all, data.subscription.id of no License, and a blank
\* data.id before the data.subscription_id of the License of evt_6.
SubscriptionFieldList ==
  << "\"id\":\"sub_1\"", "", "\"subscription\":{\"id\":\"sub_9\"}",
     "\"id\":\" \",\"subscription_id\":\"sub_2\"" >>

\* One more event, evt_7, of the given type for the given subscription.
TypedBody(eventType, subscriptionField) ==
  "{\"event_id\":\"evt_7\",\"event_type\":\"" \o eventType
    \o "\",\"data\":{" \o subscriptionField \o "}}"

TypedBodyList ==
  [ i \in 1..(Len(EventTypeList) * Len(SubscriptionFieldList)) |->
      TypedBody(EventTypeList[((i - 1) \div Len(SubscriptionFieldList)) + 1],
                SubscriptionFieldList[((i - 1) % Len(SubscriptionFieldList)) + 1]) ]

TypedBodies == { TypedBodyList[i] : i \in 1..Len(TypedBodyList) }

\* JSON.parse of the data of a typed body.
TypedData(subscriptionField) ==
  CASE subscriptionField = SubscriptionFieldList[1] -> [EmptyData EXCEPT !["id"] = "sub_1"]
    [] subscriptionField = SubscriptionFieldList[2] -> EmptyData
    [] subscriptionField = SubscriptionFieldList[3] ->
         [EmptyData EXCEPT !["subscription.id"] = "sub_9"]
    [] OTHER -> [EmptyData EXCEPT !["id"] = " ", !["subscription_id"] = "sub_2"]

\* How the data of an event names the plan: custom_data.plan in several
\* spellings, the price id of the first item in either place, a blank
\* custom plan before a price id.
PlanFieldList ==
  << ",\"custom_data\":{\"plan\":\"BUSINESS\"}",
     ",\"custom_data\":{\"plan\":\" enterprise \"}",
     ",\"custom_data\":{\"plan\":\"enterprise-plus\"}",
     ",\"items\":[{\"price\":{\"id\":\"pri_Business_01\"}}]",
     ",\"items\":[{\"price_id\":\"pri_ENTERPRISE\"}]",
     ",\"custom_data\":{\"plan\":\" \"},\"items\":[{\"price\":{\"id\":\"pri_01\"}}]" >>

PlanEventIdList ==
  << "evt_11", "evt_12", "evt_13", "evt_14", "evt_15", "evt_16" >>

\* The subscription.updated events of subscription sub_1 that name a plan.
PlanBodyList ==
  [ i \in 1..Len(PlanFieldList) |->
      "{\"event_id\":\"" \o PlanEventIdList[i]
        \o "\",\"event_type\":\"subscription.updated\",\"data\":{\"id\":\"sub_1\""
        \o PlanFieldList[i] \o "}}" ]

PlanBodies == { PlanBodyList[i] : i \in 1..Len(PlanBodyList) }

\* JSON.parse of the data of a plan body.
PlanData(i) ==
  LET data == [EmptyData EXCEPT !["id"] = "sub_1"] IN
  CASE i = 1 -> [data EXCEPT !["custom_data.plan"] = "BUSINESS"]
    [] i = 2 -> [data EXCEPT !["custom_data.plan"] = " enterprise "]
    [] i = 3 -> [data EXCEPT !["custom_data.plan"] = "enterprise-plus"]
    [] i = 4 -> [data EXCEPT !["items.0.price.id"] = "pri_Business_01"]
    [] i = 5 -> [data EXCEPT !["items.0.price_id"] = "pri_ENTERPRISE"]
    [] OTHER -> [data EXCEPT !["custom_data.plan"] = " ",
                             !["items.0.price.id"] = "pri_01"]

Obj(eventId, eventType, data) ==
  [json |-> "object", event_id |-> eventId, event_type |-> eventType, data |-> data]

\* JSON.parse of each raw body: a syntax error, a value that is no object, or
\* the object's event_id, event_type and data.
JSONParse(raw) ==
  CASE raw = RawBodyList[1] ->
         Obj("evt_1", "subscription.created",
             [EmptyData EXCEPT !["id"] = "sub_1", !["email"] = "a@x.io"])
    [] raw = RawBodyList[2] ->
         Obj("evt_2", "subscription.updated",
             [EmptyData EXCEPT !["id"] = "sub_1", !["status"] = "past_due",
                               !["next_billed_at"] = 0])
    [] raw = RawBodyList[3] ->
         Obj("evt_3", "subscription.canceled", [EmptyData EXCEPT !["id"] = "sub_1"])
    [] raw = RawBodyList[4] ->
         Obj("evt_4", "subscription.created", EmptyData)
    [] raw = RawBodyList[5] ->
         Obj("evt_5", "transaction.completed", [EmptyData EXCEPT !["id"] = "txn_1"])
    [] raw = RawBodyList[6] ->
         Obj("evt_6", "subscription.activated",
             [EmptyData EXCEPT !["subscription_id"] = " sub_2 ", !["status"] = "active",
                               !["custom_data.plan"] = "Enterprise",
                               !["current_billing_period.ends_at"] = 1])
    [] raw = RawBodyList[7] ->
         Obj(" ", "subscription.created", [EmptyData EXCEPT !["id"] = "sub_1"])
    [] raw = RawBodyList[8] ->
         [json |-> "array", event_id |-> NULL, event_type |-> NULL, data |-> EmptyData]
    [] raw \in TypedBodies ->
         LET i == CHOOSE i \in 1..Len(TypedBodyList) : TypedBodyList[i] = raw IN
         Obj("evt_7", EventTypeList[((i - 1) \div Len(SubscriptionFieldList)) + 1],
             TypedData(SubscriptionFieldList[((i - 1) % Len(SubscriptionFieldList)) + 1]))
    [] raw \in PlanBodies ->
         LET i == CHOOSE i \in 1..Len(PlanBodyList) : PlanBodyList[i] = raw IN
         Obj(PlanEventIdList[i], "subscription.updated", PlanData(i))
    [] OTHER ->
         [json |-> "invalid", event_id |-> NULL, event_type |-> NULL, data |-> EmptyData]

\* A LicenseHttpError (typed) or any other exception (typed = FALSE).
LicenseHttpError(statusCode, code) ==
  [typed |-> TRUE, statusCode |-> statusCode, code |-> code]

DatastoreError == [typed |-> FALSE, statusCode |-> 0, code |-> "unique_violation"]

NoError == [typed |-> FALSE, statusCode |-> 0, code |-> ""]

NoPayload == [eventId |-> NULL, eventType |-> NULL, data |-> EmptyData]

\* parsePaddlePayload: the error thrown, or NoError and the payload.
parsePaddlePayload(rawBody) ==
  LET root == JSONParse(rawBody) IN
  IF root.json # "object"
  THEN [error |-> LicenseHttpError(400, "PADDLE_INVALID_PAYLOAD"), payload |-> NoPayload]
  ELSE IF readString(root.event_id) = NULL \/ readString(root.event_type) = NULL
  THEN [error |-> LicenseHttpError(400, "PADDLE_INVALID_PAYLOAD"), payload |-> NoPayload]
  ELSE [error |-> NoError,
        payload |-> [eventId |-> readString(root.event_id),
                     eventType |-> readString(root.event_type),
                     data |-> root.data]]

\* ------------------------------------------------- signature header

\* String.prototype.split(/[;,]/)
RECURSIVE SplitFrom(_, _)
SplitFrom(s, cur) ==
  IF Len(s) = 0 THEN <<cur>>
  ELSE IF SubSeq(s, 1, 1) \in {";", ","}
  THEN <<cur>> \o SplitFrom(SubSeq(s, 2, Len(s)), "")
  ELSE SplitFrom(SubSeq(s, 2, Len(s)), cur \o SubSeq(s, 1, 1))

\* The position of the first "=" of s, or 0.
RECURSIVE IndexOfEq(_, _)
IndexOfEq(s, i) ==
  IF i > Len(s) THEN 0
  ELSE IF SubSeq(s, i, i) = "=" THEN i
  ELSE IndexOfEq(s, i + 1)

\* The loop over the pairs: a pair with no key or no "=" is skipped, the last
\* ts and the last h1 win.
RECURSIVE ReadPairs(_, _)
ReadPairs(parts, acc) ==
  IF parts = <<>> THEN acc
  ELSE LET pair == Trim(Head(parts))
           eq == IndexOfEq(pair, 1)
           key == SubSeq(pair, 1, eq - 1)
           value == Trim(SubSeq(pair, eq + 1, Len(pair)))
       IN IF Len(pair) = 0 \/ eq <= 1
          THEN ReadPairs(Tail(parts), acc)
          ELSE ReadPairs(Tail(parts),
                 [timestamp |-> IF key = "ts" THEN value ELSE acc.timestamp,
                  signature |-> IF key = "h1" THEN value ELSE acc.signature])

\* parsePaddleSignatureHeader: the error thrown, or NoError, ts and h1.
parsePaddleSignatureHeader(signatureHeader) ==
  IF signatureHeader = NULL \/ signatureHeader = ""
  THEN [error |-> LicenseHttpError(401, "PADDLE_SIGNATURE_MISSING"),
        timestamp |-> NULL, signature |-> NULL]
  ELSE LET got == ReadPairs(SplitFrom(signatureHeader, ""),
                            [timestamp |-> NULL, signature |-> NULL])
       IN IF got.timestamp \in {NULL, ""} \/ got.signature \in {NULL, ""}
          THEN [error |-> LicenseHttpError(401, "PADDLE_SIGNATURE_INVALID"),
                timestamp |-> NULL, signature |-> NULL]
          ELSE [error |-> NoError, timestamp |-> got.timestamp,
                signature |-> got.signature]

DecimalDigits == <<"0", "1", "2", "3", "4", "5", "6", "7", "8", "9">>

IsDigit(c) == \E i \in 1..10 : DecimalDigits[i] = c

DigitValue(c) == (CHOOSE i \in 1..10 : DecimalDigits[i] = c) - 1

\* The value of the longest prefix of digits of s, after the digits read so far.
RECURSIVE ReadDigits(_, _)
ReadDigits(s, acc) ==
  IF Len(s) > 0 /\ IsDigit(SubSeq(s, 1, 1))
  THEN ReadDigits(SubSeq(s, 2, Len(s)), 10 * acc + DigitValue(SubSeq(s, 1, 1)))
  ELSE acc

\* Number.parseInt(s, 10) and Number.isFinite of it: leading blanks, a sign,
\* then digits; NaN when no digit follows.
parseInt(s) ==
  LET t == TrimStart(s)
      signed == Len(t) > 0 /\ SubSeq(t, 1, 1) \in {"-", "+"}
      body == IF signed THEN SubSeq(t, 2, Len(t)) ELSE t
  IN IF Len(body) = 0 \/ ~IsDigit(SubSeq(body, 1, 1))
     THEN [finite |-> FALSE, value |-> 0]
     ELSE [finite |-> TRUE,
           value |-> IF signed /\ SubSeq(t, 1, 1) = "-"
                     THEN 0 - ReadDigits(body, 0) ELSE ReadDigits(body, 0)]

HexDigits ==
  <<"0", "1", "2", "3", "4", "5", "6", "7", "8", "9", "a", "b", "c", "d", "e", "f">>

HexLower(c) ==
  CASE c = "A" -> "a" [] c = "B" -> "b" [] c = "C" -> "c"
    [] c = "D" -> "d" [] c = "E" -> "e" [] c = "F" -> "f" [] OTHER -> c

IsHex(c) == \E i \in 1..16 : HexDigits[i] = HexLower(c)

\* Buffer.from(s, "hex"): the bytes of the pairs of hex digits of s, up to the
\* first pair that is not hex; an odd last digit is dropped.  A byte is
\* written as its two lower-case digits.
RECURSIVE HexDecode(_)
HexDecode(s) ==
  IF Len(s) >= 2 /\ IsHex(SubSeq(s, 1, 1)) /\ IsHex(SubSeq(s, 2, 2))
  THEN HexLower(SubSeq(s, 1, 1)) \o HexLower(SubSeq(s, 2, 2))
       \o HexDecode(SubSeq(s, 3, Len(s)))
  ELSE ""

\* The webhook secrets and timestamps senders sign with.
SecretList == <<"whsec_live", "whsec_other">>

TsList == <<"0", "1", "2", "302", "-300">>

IndexIn(list, v) == CHOOSE i \in 1..Len(list) : list[i] = v

HexByte(n) == HexDigits[(n \div 16) + 1] \o HexDigits[(n % 16) + 1]

\* createHmac("sha256", secret).update(ts + ":" + rawBody).digest("hex"),
\* collision-free: a digest names its secret, timestamp and body.
hmacHex(secret, ts, rawBody) ==
  HexByte(160 + IndexIn(SecretList, secret)) \o HexByte(IndexIn(TsList, ts))
    \o HexByte(IndexIn(RawBodyList \o TypedBodyList \o PlanBodyList, rawBody))

\* The Paddle-Signature header of a sender that signs rawBody at ts.
SignedHeader(secret, ts, rawBody) ==
  "ts=" \o ts \o ";h1=" \o hmacHex(secret, ts, rawBody)

Abs(n) == IF n < 0 THEN 0 - n ELSE n

\* A skew check that looks at the past only: t - ts in place of its absolute
\* value.
SignatureExpired_PastOnly(tolerance, ts, t) ==
  /\ tolerance.finite /\ ts.finite /\ tolerance.value > 0
  /\ t - ts.value > tolerance.value

\* The skew check of verifyPaddleSignature: tolerance and ts are the results
\* of Number.parseInt, t is Math.floor(Date.now() / 1000).
SignatureExpired(tolerance, ts, t) ==
  /\ tolerance.finite /\ ts.finite /\ tolerance.value > 0
  /\ Abs(t - ts.value) > tolerance.value

\* verifyPaddleSignature: the error thrown, or NoError.  cfg is the
\* configuration, t the clock (Math.floor(Date.now() / 1000)).
verifyPaddleSignature(cfg, t, rawBody, signatureHeader) ==
  LET parsed == parsePaddleSignatureHeader(signatureHeader)
      tolerance == parseInt(OrDefault(cfg.PADDLE_WEBHOOK_TOLERANCE_SEC, "300"))
      ts == parseInt(parsed.timestamp)
      received == HexDecode(parsed.signature)
      known == \E i \in 1..Len(TsList) : TsList[i] = parsed.timestamp
      expected == IF known
                  THEN HexDecode(hmacHex(cfg.PADDLE_WEBHOOK_SECRET, parsed.timestamp, rawBody))
                  ELSE "ffffff"
  IN IF cfg.PADDLE_WEBHOOK_SECRET \in {NULL, ""}
     THEN LicenseHttpError(503, "PADDLE_NOT_CONFIGURED")
     ELSE IF parsed.error # NoError THEN parsed.error
     ELSE IF SignatureExpired(tolerance, ts, t)
     THEN LicenseHttpError(401, "PADDLE_SIGNATURE_EXPIRED")
     ELSE IF Len(received) = 0 \/ Len(received) # Len(expected)
     THEN LicenseHttpError(401, "PADDLE_SIGNATURE_INVALID")
     ELSE IF received # expected
     THEN LicenseHttpError(401, "PADDLE_SIGNATURE_INVALID")
     ELSE NoError

\* ------------------------------------------------- state

VARIABLES
  config,           \* ConfigService: the four settings the subsystem reads
  db,               \* whether a datastore is injected (this.db)
  now,              \* the clock, in seconds
  licenses,         \* the rows of the licenses table
  processedEvents,  \* the rows of the processed_events table
  delivery,         \* per webhook delivery: position and locals of processPaddleWebhook
  request,          \* the API request in progress: position, locals and response
  client            \* the app: its server access store and the request it sent last

vars == <<config, db, now, licenses, processedEvents, delivery, request, client>>

\* The deployments of the model: a hosted one with defaults, one with a
\* prefix that has no dash, one without enforcement, one without datastore,
\* one without webhook secret.
Environments ==
  { [LICENSE_ENFORCE |-> "true", LICENSE_KEY_PREFIX |-> NULL,
     PADDLE_WEBHOOK_SECRET |-> "whsec_live", PADDLE_WEBHOOK_TOLERANCE_SEC |-> NULL,
     db |-> TRUE],
    [LICENSE_ENFORCE |-> "true", LICENSE_KEY_PREFIX |-> "KEY",
     PADDLE_WEBHOOK_SECRET |-> "whsec_live", PADDLE_WEBHOOK_TOLERANCE_SEC |-> "1",
     db |-> TRUE],
    [LICENSE_ENFORCE |-> "true", LICENSE_KEY_PREFIX |-> "AXON-",
     PADDLE_WEBHOOK_SECRET |-> "whsec_live", PADDLE_WEBHOOK_TOLERANCE_SEC |-> "0",
     db |-> FALSE],
    [LICENSE_ENFORCE |-> "TRUE", LICENSE_KEY_PREFIX |-> NULL,
     PADDLE_WEBHOOK_SECRET |-> NULL, PADDLE_WEBHOOK_TOLERANCE_SEC |-> NULL,
     db |-> FALSE] }

\* this.configService.get("LICENSE_KEY_PREFIX") || "AXON-"
KeyPrefix(cfg) == OrDefault(cfg.LICENSE_KEY_PREFIX, "AXON-")

\* The random groups buildLicenseKey can draw.
RandomGroups == { "0A1B-0000-0000-0001", "0A1B-0000-0000-0002" }

\* upsertActiveLicense: const maxAttempts = 5
maxAttempts == 5

\* A licenses row: no row (an empty select) is the empty sequence.
LicenseRow(id, key, email, status, plan, maxDevices, sub, expiresAt, updatedAt) ==
  [id |-> id, key |-> key, email |-> email, status |-> status, plan |-> plan,
   maxDevices |-> maxDevices, paddleSubscriptionId |-> sub,
   expiresAt |-> expiresAt, updatedAt |-> updatedAt]

\* select().from(licenses).where(eq(licenses.key, key)).limit(1)
SelectByKey(rows, key) ==
  IF \E r \in rows : r.key = key
  THEN << CHOOSE r \in rows : r.key = key >> ELSE <<>>

\* select().from(licenses).where(eq(licenses.paddleSubscriptionId, sub)).limit(1)
SelectBySubscription(rows, sub) ==
  IF \E r \in rows : r.paddleSubscriptionId = sub
  THEN << CHOOSE r \in rows : r.paddleSubscriptionId = sub >> ELSE <<>>

\* The reservation insert of a ledger whose event_id has no unique index.
processedEventsConflict_NoIndex(rows, eventId) == FALSE

\* processed_events.event_id is unique: whether an insert of eventId conflicts.
processedEventsConflict(rows, eventId) == \E e \in rows : e.eventId = eventId

\* A rollback that deletes nothing.
processedEventsDelete_Nothing(rows, eventId) == rows

\* delete(processedEvents).where(eventId = eventId)
processedEventsDelete(rows, eventId) == { e \in rows : e.eventId # eventId }

\* The licenses table without the unique index on paddle_subscription_id.
licensesInsert_NoSubscriptionIndex(rows, row) ==
  IF \E r \in rows : r.key = row.key THEN "nothing" ELSE "inserted"

\* The licenses table without the unique index on key.
licensesInsert_NoKeyIndex(rows, row) ==
  IF row.paddleSubscriptionId # NULL
     /\ \E r \in rows : r.paddleSubscriptionId = row.paddleSubscriptionId
  THEN "unique_violation"
  ELSE "inserted"

\* licenses.key and licenses.paddle_subscription_id are unique.  An insert
\* with onConflictDoNothing(key) does nothing when the key is taken, and fails
\* when only the subscription id is taken (that index is no arbiter).
licensesInsert(rows, row) ==
  IF \E r \in rows : r.key = row.key THEN "nothing"
  ELSE IF row.paddleSubscriptionId # NULL
          /\ \E r \in rows : r.paddleSubscriptionId = row.paddleSubscriptionId
  THEN "unique_violation"
  ELSE "inserted"

\* What LicenseController.paddleWebhook answers: the result of the service,
\* or an HttpException with a status and a body code.
NoResponse == [thrown |-> FALSE, statusCode |-> 0, code |-> ""]

HttpException(statusCode, code) ==
  [thrown |-> TRUE, statusCode |-> statusCode, code |-> code]

IdleDelivery ==
  [pc |-> "idle", rawBody |-> "", signatureHeader |-> NULL, payload |-> NoPayload, existingLicense |-> <<>>, attempt |-> 0,
   expiresAt |-> 0, updatedAt |-> 0, won |-> FALSE, writes |-> 0, action |-> "", error |-> NoError,
   response |-> NoResponse]

\* req.headers["x-license-key"]: absent, one value, or the values of a
\* repeated header.
NoHeader == [kind |-> "undefined", values |-> <<>>]

HeaderString(v) == [kind |-> "string", values |-> <<v>>]

HeaderArray(vs) == [kind |-> "array", values |-> vs]

IdleRequest ==
  [pc |-> "idle", kind |-> "", method |-> "", path |-> "", header |-> NoHeader,
   key |-> "", validated |-> FALSE, result |-> <<>>,
   status |-> 0, body |-> <<>>, nextCalls |-> 0, license |-> <<>>]

\* The names of the headers of a client request, as a Headers object keeps
\* them.
ClientHeaderNames == {"x-license-key", "x-device-id", "content-type"}

\* new Headers()
EmptyHeaders == [n \in ClientHeaderNames |-> NULL]

\* Headers.prototype.has
HeadersHas(headers, name) == headers[toLowerCase(name)] # NULL

\* Headers.prototype.set
HeadersSet(headers, name, value) ==
  [headers EXCEPT ![toLowerCase(name)] = value]

\* Headers.prototype.append: the values of a repeated name are combined.
HeadersAppend(headers, name, value) ==
  [headers EXCEPT ![toLowerCase(name)] =
     IF @ = NULL THEN value ELSE @ \o ", " \o value]

\* new Headers(init?.headers), init being a list of name and value pairs.
RECURSIVE NewHeaders(_)
NewHeaders(init) ==
  IF init = <<>> THEN EmptyHeaders
  ELSE LET last == init[Len(init)]
       IN HeadersAppend(NewHeaders(SubSeq(init, 1, Len(init) - 1)), last[1], last[2])

\* The app of a device that has not been set up and has sent nothing.
IdleClient ==
  [ store |-> [isConfigured |-> FALSE, mode |-> "hosted", licenseKey |-> "",
               deviceId |-> ""],
    fetched |-> FALSE, init |-> <<>>, headers |-> EmptyHeaders ]

\* ------------------------------------------------- license.middleware.config

\* LICENSE_MIDDLEWARE_EXCLUDES
LICENSE_MIDDLEWARE_EXCLUDES ==
  { [path |-> "license/validate", method |-> "POST"],
    [path |-> "api/license/validate", method |-> "POST"],
    [path |-> "license/webhook/paddle", method |-> "POST"],
    [path |-> "api/license/webhook/paddle", method |-> "POST"],
    [path |-> "health", method |-> "GET"],
    [path |-> "api/docs", method |-> "GET"],
    [path |-> "api/docs/(.*)", method |-> "GET"] }

\* Whether a request path matches the path of an excluded route: the path
\* itself, or for a pattern that ends in /(.*) anything under it.
PathMatches(pattern, path) ==
  IF EndsWith(pattern, "/(.*)")
  THEN StartsWith(path, SubSeq(pattern, 1, Len(pattern) - 4))
  ELSE path = pattern

\* Excludes that name the path and forget the method.
isRouteExcluded_AnyMethod(method, path) ==
  \E e \in LICENSE_MIDDLEWARE_EXCLUDES : PathMatches(e.path, path)

\* Excludes that take a pattern for a prefix of the path.
isRouteExcluded_PathPrefix(method, path) ==
  \E e \in LICENSE_MIDDLEWARE_EXCLUDES :
    /\ e.method \in {"ALL", method}
    /\ StartsWith(path, IF EndsWith(e.path, "/(.*)")
                        THEN SubSeq(e.path, 1, Len(e.path) - 5) ELSE e.path)

\* configureLicenseMiddleware: apply(LicenseMiddleware).exclude(...)
\* .forRoutes({ path: "*", method: ALL }) leaves out a request whose method
\* and path match an excluded route.
isRouteExcluded(method, path) ==
  \E e \in LICENSE_MIDDLEWARE_EXCLUDES :
    e.method \in {"ALL", method} /\ PathMatches(e.path, path)

Init ==
  /\ \E env \in Environments :
       /\ config = [LICENSE_ENFORCE |-> env.LICENSE_ENFORCE,
                    LICENSE_KEY_PREFIX |-> env.LICENSE_KEY_PREFIX,
                    PADDLE_WEBHOOK_SECRET |-> env.PADDLE_WEBHOOK_SECRET,
                    PADDLE_WEBHOOK_TOLERANCE_SEC |-> env.PADDLE_WEBHOOK_TOLERANCE_SEC]
       /\ db = env.db
  /\ now = 0
  /\ licenses = {}
  /\ processedEvents = {}
  /\ delivery = [p \in Deliveries |-> IdleDelivery]
  /\ request = IdleRequest
  /\ client = IdleClient

\* ------------------------------------------------- processPaddleWebhook

\* The Paddle-Signature headers that do not carry the provider's signature
\* of raw at ts = 1 as it was issued: missing, without ts or h1, not hex, the
\* digest cut short or followed by other characters, signed with another
\* secret, for another body or for another ts, or signed at another time.
BadHeaders(raw) ==
  { NULL, "", "ts=1", "h1=a1", "ts=1;h1=zz", "ts=;h1=a1", "ts=1;h1=",
    "ts=1;h1=" \o SubSeq(hmacHex("whsec_live", "1", raw), 1, 4),
    SignedHeader("whsec_live", "1", raw) \o "zz",
    SignedHeader("whsec_live", "1", raw) \o "7",
    "ts=2;h1=" \o hmacHex("whsec_live", "1", raw),
    "ts=302;h1=" \o hmacHex("whsec_live", "1", raw),
    SignedHeader("whsec_other", "1", raw),
    SignedHeader("whsec_live", "0", raw),
    SignedHeader("whsec_live", "2", raw),
    SignedHeader("whsec_live", "302", raw),
    SignedHeader("whsec_live", "-300", raw),
    SignedHeader("whsec_live", "1", RawBodyList[2]) }

\* The deliveries the billing provider (or anyone else) sends: every body
\* signed by the provider, and a body with no signature or a foreign one.
WebhookInputs ==
  { <<raw, SignedHeader("whsec_live", "1", raw)>> : raw \in RawBodies }
    \cup { <<RawBodyList[1], h>> :
             h \in { NULL, SignedHeader("whsec_other", "1", RawBodyList[1]) } }

\* One body and every header above, a good one included.
SignatureInputs ==
  { <<RawBodyList[1], h>> :
       h \in BadHeaders(RawBodyList[1])
               \cup {SignedHeader("whsec_live", "1", RawBodyList[1])} }
    \cup { <<RawBodyList[9], SignedHeader("whsec_live", "1", RawBodyList[9])>>,
           <<RawBodyList[9], NULL>>,
           <<RawBodyList[8], SignedHeader("whsec_live", "1", RawBodyList[8])>>,
           <<RawBodyList[7], SignedHeader("whsec_live", "1", RawBodyList[7])>>,
           <<RawBodyList[7], "ts=1;h1=zz">>,
           <<RawBodyList[3], SignedHeader("whsec_live", "1", RawBodyList[3])>>,
           <<RawBodyList[3], SignedHeader("whsec_live", "1", RawBodyList[1])>> }

\* A controller that answers every exception as a processing error.
paddleWebhook_AlwaysProcessingError(error) ==
  IF error = NoError THEN NoResponse
  ELSE HttpException(500, "PADDLE_PROCESSING_ERROR")

\* LicenseController.paddleWebhook: the try/catch around processPaddleWebhook.
paddleWebhook(error) ==
  IF error = NoError THEN NoResponse
  ELSE IF error.typed THEN HttpException(error.statusCode, error.code)
  ELSE HttpException(500, "PADDLE_PROCESSING_ERROR")

\* processPaddleWebhook returns or throws: its locals are gone, and the
\* controller answers.
Return(d) ==
  [d EXCEPT !.pc = "done", !.existingLicense = <<>>, !.attempt = 0,
            !.expiresAt = 0, !.updatedAt = 0,
            !.response = paddleWebhook(d.error)]

Finish(d, action) == [Return(d) EXCEPT !.action = action]

Fail(d, error) == Return([d EXCEPT !.error = error])

\* A head that parses the payload before it verifies the signature.
Receive_PayloadFirst(p, rawBody, signatureHeader) ==
  /\ delivery[p].pc = "idle"
  /\ \A q \in Deliveries : q < p => delivery[q].pc # "idle"
  /\ LET sigError == verifyPaddleSignature(config, now, rawBody, signatureHeader)
         parsed == parsePaddlePayload(rawBody)
         d == [delivery[p] EXCEPT !.rawBody = rawBody,
                                  !.signatureHeader = signatureHeader]
     IN delivery' = [delivery EXCEPT ![p] =
          IF parsed.error # NoError THEN Fail(d, parsed.error)
          ELSE IF sigError # NoError THEN Fail(d, sigError)
          ELSE IF ~db THEN Fail(d, LicenseHttpError(503, "LICENSE_BACKEND_UNAVAILABLE"))
          ELSE [d EXCEPT !.pc = "reserve", !.payload = parsed.payload]]
  /\ UNCHANGED <<config, db, now, licenses, processedEvents, request, client>>

\* The synchronous head of processPaddleWebhook: signature, payload, datastore
\* check; then the reservation insert is issued.
Receive(p, rawBody, signatureHeader) ==
  /\ delivery[p].pc = "idle"
  /\ \A q \in Deliveries : q < p => delivery[q].pc # "idle"
  /\ LET sigError == verifyPaddleSignature(config, now, rawBody, signatureHeader)
         parsed == parsePaddlePayload(rawBody)
         d == [delivery[p] EXCEPT !.rawBody = rawBody,
                                  !.signatureHeader = signatureHeader]
     IN delivery' = [delivery EXCEPT ![p] =
          IF sigError # NoError THEN Fail(d, sigError)
          ELSE IF parsed.error # NoError THEN Fail(d, parsed.error)
          ELSE IF ~db THEN Fail(d, LicenseHttpError(503, "LICENSE_BACKEND_UNAVAILABLE"))
          ELSE [d EXCEPT !.pc = "reserve", !.payload = parsed.payload]]
  /\ UNCHANGED <<config, db, now, licenses, processedEvents, request, client>>

\* An applyPaddleLifecycle that upserts for every type that is not
\* deactivating.
BeginLifecycle_UnknownTypeActivates(d, t) ==
  IF d.payload.eventType \notin PADDLE_DEACTIVATING_EVENTS
  THEN IF extractSubscriptionId(d.payload.data) = NULL
       THEN [d EXCEPT !.pc = "rollback",
                      !.error = [typed |-> TRUE, statusCode |-> 400,
                                 code |-> "PADDLE_SUBSCRIPTION_ID_MISSING"]]
       ELSE [d EXCEPT !.pc = "select",
                      !.expiresAt = extractExpiryDate(d.payload.data, t)]
  ELSE IF extractSubscriptionId(d.payload.data) = NULL
  THEN [Return(d) EXCEPT !.action = "deactivated"]
  ELSE [d EXCEPT !.pc = "deactivate", !.updatedAt = t]

\* An upsertActiveLicense that does not look for the subscription id.
BeginLifecycle_NoSubscriptionCheck(d, t) ==
  IF d.payload.eventType \in PADDLE_ACTIVATING_EVENTS
  THEN [d EXCEPT !.pc = "select", !.expiresAt = extractExpiryDate(d.payload.data, t)]
  ELSE IF d.payload.eventType \in PADDLE_DEACTIVATING_EVENTS
  THEN IF extractSubscriptionId(d.payload.data) = NULL
       THEN [Return(d) EXCEPT !.action = "deactivated"]
       ELSE [d EXCEPT !.pc = "deactivate", !.updatedAt = t]
  ELSE [Return(d) EXCEPT !.action = "ignored"]

\* applyPaddleLifecycle and the code of upsertActiveLicense / deactivateLicense
\* that runs before their first datastore statement.
BeginLifecycle(d, t) ==
  IF d.payload.eventType \in PADDLE_ACTIVATING_EVENTS
  THEN IF extractSubscriptionId(d.payload.data) = NULL
       THEN [d EXCEPT !.pc = "rollback",
                      !.error = LicenseHttpError(400, "PADDLE_SUBSCRIPTION_ID_MISSING")]
       ELSE [d EXCEPT !.pc = "select",
                      !.expiresAt = extractExpiryDate(d.payload.data, t)]
  ELSE IF d.payload.eventType \in PADDLE_DEACTIVATING_EVENTS
  THEN IF extractSubscriptionId(d.payload.data) = NULL
       THEN Finish(d, "deactivated")
       ELSE [d EXCEPT !.pc = "deactivate", !.updatedAt = t]
  ELSE Finish(d, "ignored")

\* "activated" for every activating event.
ActivationAction_AlwaysActivated(eventType) == "activated"

\* The action returned after a successful upsertActiveLicense.
ActivationAction(eventType) ==
  IF eventType = "subscription.created" THEN "activated" ELSE "updated"

\* insert(processedEvents).onConflictDoNothing(eventId).returning(id), and the
\* code that follows it.
Reserve(p) ==
  /\ delivery[p].pc = "reserve"
  /\ IF processedEventsConflict(processedEvents, delivery[p].payload.eventId)
     THEN /\ delivery' = [delivery EXCEPT ![p] = Finish(@, "duplicate")]
          /\ UNCHANGED processedEvents
     ELSE /\ processedEvents' = processedEvents \cup
               { [id |-> p, eventId |-> delivery[p].payload.eventId, source |-> "paddle"] }
          /\ delivery' = [delivery EXCEPT ![p] = BeginLifecycle([@ EXCEPT !.won = TRUE], now)]
  /\ UNCHANGED <<config, db, now, licenses, request, client>>

\* select().from(licenses).where(paddleSubscriptionId = subscriptionId).limit(1)
SelectExisting(p) ==
  /\ delivery[p].pc = "select"
  /\ LET sub == extractSubscriptionId(delivery[p].payload.data)
         existing == SelectBySubscription(licenses, sub)
     IN delivery' = [delivery EXCEPT ![p] =
          IF existing # <<>>
          THEN [@ EXCEPT !.pc = "update", !.existingLicense = existing,
                         !.updatedAt = now]
          ELSE [@ EXCEPT !.pc = "insert", !.attempt = 0]]
  /\ UNCHANGED <<config, db, now, licenses, processedEvents, request, client>>

\* The status upsertActiveLicense stores: the payload's, or "active".
PayloadStatus(data) ==
  IF data["status"] # NULL /\ Len(Trim(data["status"])) > 0
  THEN Trim(data["status"]) ELSE "active"

\* update(licenses).set({...}).where(id = existingLicense.id)
UpdateExisting(p) ==
  /\ delivery[p].pc = "update"
  /\ LET d == delivery[p]
         data == d.payload.data
         old == d.existingLicense[1]
         email == extractEmail(data)
         hit == { r \in licenses : r.id = old.id }
         Set(r) == [r EXCEPT !.email = IF email # NULL THEN email ELSE old.email,
                             !.plan = resolvePlan(data),
                             !.maxDevices = deriveMaxDevices(resolvePlan(data)),
                             !.status = PayloadStatus(data),
                             !.expiresAt = d.expiresAt,
                             !.updatedAt = d.updatedAt]
     IN /\ licenses' = (licenses \ hit) \cup { Set(r) : r \in hit }
        /\ delivery' = [delivery EXCEPT ![p] =
             Finish([@ EXCEPT !.writes = @ + Cardinality(hit)],
                    ActivationAction(d.payload.eventType))]
  /\ UNCHANGED <<config, db, now, processedEvents, request, client>>

\* A key loop that takes no notice of the row its insert returned and gives
\* up.
InsertReturned_Ignored(d, action) ==
  [d EXCEPT !.writes = @ + 1, !.pc = "rollback",
            !.error = LicenseHttpError(500, "LICENSE_KEY_GENERATION_FAILED")]

\* if (inserted.length > 0) return: the upsert is over and the result of the
\* webhook is returned.
InsertReturned(d, action) == Finish([d EXCEPT !.writes = @ + 1], action)

\* One turn of the key loop: insert(licenses).values({...})
\* .onConflictDoNothing(key).returning(id).  A row with the same key makes the
\* insert do nothing; a row with the same paddleSubscriptionId violates that
\* column's unique index, which the statement does not arbitrate.
InsertLicense(p, random) ==
  /\ delivery[p].pc = "insert"
  /\ LET d == delivery[p]
         data == d.payload.data
         generatedKey == buildLicenseKey(KeyPrefix(config), random)
         sub == extractSubscriptionId(data)
         row == LicenseRow(Cardinality(licenses) + 1, generatedKey, extractEmail(data),
                           PayloadStatus(data), resolvePlan(data),
                           deriveMaxDevices(resolvePlan(data)), sub, d.expiresAt, now)
     IN IF licensesInsert(licenses, row) = "nothing"
        THEN /\ delivery' = [delivery EXCEPT ![p] =
                  IF d.attempt + 1 < maxAttempts
                  THEN [@ EXCEPT !.attempt = @ + 1]
                  ELSE [@ EXCEPT !.pc = "rollback", !.attempt = @ + 1,
                          !.error = LicenseHttpError(500, "LICENSE_KEY_GENERATION_FAILED")]]
             /\ UNCHANGED licenses
        ELSE IF licensesInsert(licenses, row) = "unique_violation"
        THEN /\ delivery' = [delivery EXCEPT ![p] =
                  [@ EXCEPT !.pc = "rollback", !.error = DatastoreError]]
             /\ UNCHANGED licenses
        ELSE /\ licenses' = licenses \cup {row}
             /\ delivery' = [delivery EXCEPT ![p] =
                  InsertReturned(@, ActivationAction(d.payload.eventType))]
  /\ UNCHANGED <<config, db, now, processedEvents, request, client>>

\* A deactivation that deletes the License of the subscription.
DeactivateUpdate_DeletesRow(p) ==
  /\ delivery[p].pc = "deactivate"
  /\ LET d == delivery[p]
         sub == extractSubscriptionId(d.payload.data)
         hit == { r \in licenses : r.paddleSubscriptionId = sub }
     IN /\ licenses' = licenses \ hit
        /\ delivery' = [delivery EXCEPT ![p] =
             Finish([@ EXCEPT !.writes = @ + Cardinality(hit)], "deactivated")]
  /\ UNCHANGED <<config, db, now, processedEvents, request, client>>

\* An update without its where clause: every License is deactivated.
DeactivateUpdate_AllRows(p) ==
  /\ delivery[p].pc = "deactivate"
  /\ LET d == delivery[p]
         Set(r) == [r EXCEPT !.status = mapDeactivationStatus(d.payload.eventType),
                             !.updatedAt = d.updatedAt]
     IN /\ licenses' = { Set(r) : r \in licenses }
        /\ delivery' = [delivery EXCEPT ![p] =
             Finish([@ EXCEPT !.writes = @ + Cardinality(licenses)], "deactivated")]
  /\ UNCHANGED <<config, db, now, processedEvents, request, client>>

\* update(licenses).set({status, updatedAt}).where(paddleSubscriptionId = id)
DeactivateUpdate(p) ==
  /\ delivery[p].pc = "deactivate"
  /\ LET d == delivery[p]
         sub == extractSubscriptionId(d.payload.data)
         hit == { r \in licenses : r.paddleSubscriptionId = sub }
         Set(r) == [r EXCEPT !.status = mapDeactivationStatus(d.payload.eventType),
                             !.updatedAt = d.updatedAt]
     IN /\ licenses' = (licenses \ hit) \cup { Set(r) : r \in hit }
        /\ delivery' = [delivery EXCEPT ![p] =
             Finish([@ EXCEPT !.writes = @ + Cardinality(hit)], "deactivated")]
  /\ UNCHANGED <<config, db, now, processedEvents, request, client>>

\* The catch block: delete(processedEvents).where(eventId = payload.eventId),
\* then the error is thrown again.
Rollback(p) ==
  /\ delivery[p].pc = "rollback"
  /\ processedEvents' =
       processedEventsDelete(processedEvents, delivery[p].payload.eventId)
  /\ delivery' = [delivery EXCEPT ![p] = Return(@)]
  /\ UNCHANGED <<config, db, now, licenses, request, client>>

\* The response of a delivery was sent: nothing of the call is kept.
Forget(p) ==
  /\ delivery[p].pc = "done"
  /\ delivery' = [delivery EXCEPT ![p] = IdleDelivery]
  /\ UNCHANGED <<config, db, now, licenses, processedEvents, request, client>>

\* Time passes.
Tick ==
  /\ now < MaxTime
  /\ now' = now + 1
  /\ UNCHANGED <<config, db, licenses, processedEvents, delivery, request, client>>

\* ------------------------------------------------- validateLicenseKey

\* LicenseService.invalid
invalid(statusCode, code, message, details) ==
  [valid |-> FALSE, statusCode |-> statusCode, code |-> code, message |-> message,
   details |-> details, license |-> <<>>]

\* The datastore check placed before the prefix check.
ValidateBeforeSelect_DbFirst(cfg, hasDb, key) ==
  IF Len(Trim(key)) = 0
  THEN << invalid(401, "LICENSE_REQUIRED", "License key is required for hosted access", <<>>) >>
  ELSE IF ~hasDb
  THEN << invalid(503, "LICENSE_BACKEND_UNAVAILABLE", "License backend is not available", <<>>) >>
  ELSE IF Len(KeyPrefix(cfg)) > 0 /\ ~StartsWith(Trim(key), KeyPrefix(cfg))
  THEN << invalid(401, "LICENSE_INVALID", "Invalid license key format",
                  << [expectedPrefix |-> KeyPrefix(cfg)] >>) >>
  ELSE <<>>

\* No datastore check: the select runs on an empty table.
ValidateBeforeSelect_NoDbCheck(cfg, hasDb, key) ==
  IF Len(Trim(key)) = 0
  THEN << invalid(401, "LICENSE_REQUIRED", "License key is required for hosted access", <<>>) >>
  ELSE IF Len(KeyPrefix(cfg)) > 0 /\ ~StartsWith(Trim(key), KeyPrefix(cfg))
  THEN << invalid(401, "LICENSE_INVALID", "Invalid license key format",
                  << [expectedPrefix |-> KeyPrefix(cfg)] >>) >>
  ELSE <<>>

\* validateLicenseKey up to its select: the result returned without a select,
\* or none.
ValidateBeforeSelect(cfg, hasDb, key) ==
  IF Len(Trim(key)) = 0
  THEN << invalid(401, "LICENSE_REQUIRED", "License key is required for hosted access", <<>>) >>
  ELSE IF Len(KeyPrefix(cfg)) > 0 /\ ~StartsWith(Trim(key), KeyPrefix(cfg))
  THEN << invalid(401, "LICENSE_INVALID", "Invalid license key format",
                  << [expectedPrefix |-> KeyPrefix(cfg)] >>) >>
  ELSE IF ~hasDb
  THEN << invalid(503, "LICENSE_BACKEND_UNAVAILABLE", "License backend is not available", <<>>) >>
  ELSE <<>>

\* The expiry comparison dropped.
ValidateAfterSelect_NoExpiry(rows, t) ==
  IF rows = <<>>
  THEN invalid(401, "LICENSE_INVALID", "Invalid license key", <<>>)
  ELSE IF rows[1].status # "active"
  THEN invalid(403, "LICENSE_BLOCKED", "License is not active",
               << [status |-> rows[1].status] >>)
  ELSE [valid |-> TRUE, statusCode |-> 200, code |-> "LICENSE_VALID",
        message |-> "License is valid", details |-> <<>>, license |-> rows]

\* The expiry comparison placed before the status comparison.
ValidateAfterSelect_ExpiryFirst(rows, t) ==
  IF rows = <<>>
  THEN invalid(401, "LICENSE_INVALID", "Invalid license key", <<>>)
  ELSE IF rows[1].expiresAt <= t
  THEN invalid(402, "LICENSE_EXPIRED", "License has expired",
               << [expiresAt |-> rows[1].expiresAt] >>)
  ELSE IF rows[1].status # "active"
  THEN invalid(403, "LICENSE_BLOCKED", "License is not active",
               << [status |-> rows[1].status] >>)
  ELSE [valid |-> TRUE, statusCode |-> 200, code |-> "LICENSE_VALID",
        message |-> "License is valid", details |-> <<>>, license |-> rows]

\* validateLicenseKey from the rows its select returned, at time t.
ValidateAfterSelect(rows, t) ==
  IF rows = <<>>
  THEN invalid(401, "LICENSE_INVALID", "Invalid license key", <<>>)
  ELSE IF rows[1].status # "active"
  THEN invalid(403, "LICENSE_BLOCKED", "License is not active",
               << [status |-> rows[1].status] >>)
  ELSE IF rows[1].expiresAt <= t
  THEN invalid(402, "LICENSE_EXPIRED", "License has expired",
               << [expiresAt |-> rows[1].expiresAt] >>)
  ELSE [valid |-> TRUE, statusCode |-> 200, code |-> "LICENSE_VALID",
        message |-> "License is valid", details |-> <<>>, license |-> rows]

\* validateLicenseKey(key) on the table `rows` at time t.
validateLicenseKey(cfg, hasDb, rows, t, key) ==
  IF ValidateBeforeSelect(cfg, hasDb, key) # <<>>
  THEN ValidateBeforeSelect(cfg, hasDb, key)[1]
  ELSE ValidateAfterSelect(SelectByKey(rows, Trim(key)), t)

\* LicenseService.isEnforced
isEnforced(cfg) == cfg.LICENSE_ENFORCE = "true"

\* ------------------------------------------------- requests

\* The keys a client presents.
PresentedKeys ==
  { "   ", "BAD-KEY", "AXON-0A1B-0000-0000-0001", "  AXON-0A1B-0000-0000-0002 ",
    "KEY-0A1B-0000-0000-0001" }

PresentedHeaders ==
  { NoHeader, HeaderArray(<<>>),
    HeaderArray(<<"  ", "AXON-0A1B-0000-0000-0001">>),
    HeaderArray(<<"AXON-0A1B-0000-0000-0002", "BAD-KEY">>),
    HeaderString("   "), HeaderString("BAD-KEY"),
    HeaderString(" AXON-0A1B-0000-0000-0001 "),
    HeaderString("KEY-0A1B-0000-0000-0002") }

\* The values of a repeated header joined, as Node joins most headers.
readHeaderValue_Joined(h) ==
  IF h.kind = "string" THEN h.values[1]
  ELSE IF h.kind = "array" /\ Len(h.values) = 1 THEN h.values[1]
  ELSE IF h.kind = "array" /\ Len(h.values) > 1 THEN h.values[1] \o ", " \o h.values[2]
  ELSE ""

\* license.middleware.ts readHeaderValue
readHeaderValue(h) ==
  IF h.kind = "string" THEN h.values[1]
  ELSE IF h.kind = "array" /\ Len(h.values) > 0 THEN h.values[1]
  ELSE ""

\* The JSON body of a denial: statusCode, message, code, details ?? null.
ErrorBody(result) ==
  << [statusCode |-> result.statusCode, message |-> result.message,
      code |-> result.code, details |-> result.details] >>

\* A gate that denies with 401 whatever the validator's statusCode.
GateAnswer_Always401(r, result) ==
  IF ~result.valid
  THEN [r EXCEPT !.pc = "done", !.result = <<result>>, !.status = 401,
                 !.body = << [statusCode |-> 401, message |-> result.message,
                              code |-> result.code, details |-> result.details] >>]
  ELSE [r EXCEPT !.pc = "done", !.result = <<result>>,
                 !.license = result.license, !.nextCalls = @ + 1]

\* The end of LicenseMiddleware.use, once validateLicenseKey has returned.
GateAnswer(r, result) ==
  IF ~result.valid
  THEN [r EXCEPT !.pc = "done", !.result = <<result>>,
                 !.status = result.statusCode, !.body = ErrorBody(result)]
  ELSE [r EXCEPT !.pc = "done", !.result = <<result>>,
                 !.license = result.license, !.nextCalls = @ + 1]

\* The end of LicenseController.validateLicense.
EndpointAnswer(r, result) ==
  IF ~result.valid
  THEN [r EXCEPT !.pc = "done", !.result = <<result>>,
                 !.status = result.statusCode, !.body = ErrorBody(result)]
  ELSE [r EXCEPT !.pc = "done", !.result = <<result>>, !.status = 200,
                 !.body = << [valid |-> TRUE, plan |-> result.license[1].plan,
                              expiresAt |-> result.license[1].expiresAt,
                              message |-> result.message, code |-> result.code] >>]

Answer(r, result) ==
  IF r.kind = "gate" THEN GateAnswer(r, result) ELSE EndpointAnswer(r, result)

\* A call of validateLicenseKey(key) by request r: it returns at once, or
\* issues its select.
CallValidate(r, key) ==
  IF ValidateBeforeSelect(config, db, key) # <<>>
  THEN Answer([r EXCEPT !.key = key, !.validated = TRUE],
              ValidateBeforeSelect(config, db, key)[1])
  ELSE [r EXCEPT !.pc = "select", !.key = key, !.validated = TRUE]

\* A gate that validates the key whatever LICENSE_ENFORCE is.
GateBegin_AlwaysEnforced(r, header) ==
  IF Len(Trim(readHeaderValue(header))) = 0
  THEN [r EXCEPT !.pc = "done", !.status = 401,
          !.body = << [statusCode |-> 401,
                       message |-> "License key is required for hosted access",
                       code |-> "LICENSE_REQUIRED", details |-> <<>>] >>]
  ELSE CallValidate(r, Trim(readHeaderValue(header)))

\* LicenseMiddleware.use up to the first datastore statement.
GateBegin(r, header) ==
  IF ~isEnforced(config)
  THEN [r EXCEPT !.pc = "done", !.nextCalls = @ + 1]
  ELSE IF Len(Trim(readHeaderValue(header))) = 0
  THEN [r EXCEPT !.pc = "done", !.status = 401,
          !.body = << [statusCode |-> 401,
                       message |-> "License key is required for hosted access",
                       code |-> "LICENSE_REQUIRED", details |-> <<>>] >>]
  ELSE CallValidate(r, Trim(readHeaderValue(header)))

\* A request to a route the middleware is registered for: LicenseMiddleware.use
\* runs before the router.
GateUse(method, path, header) ==
  /\ request.pc \in {"idle", "done"}
  /\ ~isRouteExcluded(method, path)
  /\ request' = GateBegin([IdleRequest EXCEPT !.kind = "gate", !.method = method,
                                              !.path = path, !.header = header],
                          header)
  /\ UNCHANGED <<config, db, now, licenses, processedEvents, delivery, client>>

\* The excluded routes whose handlers are the two of LicenseController.
ControllerRoutes ==
  { [path |-> "license/validate", method |-> "POST"],
    [path |-> "license/webhook/paddle", method |-> "POST"] }

\* A request to any other excluded route: it reaches the router, the
\* middleware does not run.
Bypass(method, path, header) ==
  /\ request.pc \in {"idle", "done"}
  /\ isRouteExcluded(method, path)
  /\ [path |-> path, method |-> method] \notin ControllerRoutes
  /\ request' = [IdleRequest EXCEPT !.pc = "done", !.kind = "direct", !.method = method,
                                    !.path = path, !.header = header]
  /\ UNCHANGED <<config, db, now, licenses, processedEvents, delivery, client>>

\* LicenseController.validateLicense (POST license/validate), up to the
\* first datastore statement.
ValidateEndpoint(key) ==
  /\ request.pc \in {"idle", "done"}
  /\ isRouteExcluded("POST", "license/validate")
  /\ request' = CallValidate([IdleRequest EXCEPT !.kind = "endpoint", !.method = "POST",
                                                 !.path = "license/validate"], key)
  /\ UNCHANGED <<config, db, now, licenses, processedEvents, delivery, client>>

\* select().from(licenses).where(key = normalizedKey).limit(1), and the rest
\* of validateLicenseKey and of its caller.
ValidateSelect ==
  /\ request.pc = "select"
  /\ request' = Answer(request,
                       ValidateAfterSelect(SelectByKey(licenses, Trim(request.key)), now))
  /\ UNCHANGED <<config, db, now, licenses, processedEvents, delivery, client>>

\* ------------------------------------------------- specification

Next ==
  \/ \E p \in Deliveries, w \in WebhookInputs : Receive(p, w[1], w[2])
  \/ \E p \in Deliveries : Reserve(p)
  \/ \E p \in Deliveries : SelectExisting(p)
  \/ \E p \in Deliveries : UpdateExisting(p)
  \/ \E p \in Deliveries, random \in RandomGroups : InsertLicense(p, random)
  \/ \E p \in Deliveries : DeactivateUpdate(p)
  \/ \E p \in Deliveries : Rollback(p)
  \/ \E header \in PresentedHeaders : GateUse("GET", "api/chat", header)
  \/ \E key \in PresentedKeys : ValidateEndpoint(key)
  \/ ValidateSelect
  \/ Tick

Spec == Init /\ [][Next]_vars

\* ------------------------------------------------- requests by route

\* The settings of LICENSE_ENFORCE a deployment can carry besides "true",
\* on a deployment with datastore and webhook secret.
UnenforcedEnvironments ==
  { [LICENSE_ENFORCE |-> e, LICENSE_KEY_PREFIX |-> NULL,
     PADDLE_WEBHOOK_SECRET |-> "whsec_live", PADDLE_WEBHOOK_TOLERANCE_SEC |-> NULL,
     db |-> TRUE] : e \in {NULL, "", "false", "True", "1", " true"} }

\* The methods and paths of the requests the server receives.
RequestMethods == {"GET", "POST", "HEAD"}

RequestPaths ==
  { "license/validate", "api/license/validate", "license/webhook/paddle",
    "api/license/webhook/paddle", "health", "healthz", "api/docs", "api/docsx",
    "api/docs/", "api/docs/swagger-ui.css", "api/chat", "" }

\* The headers a request to any route carries.
RouteHeaders ==
  { NoHeader, HeaderString("BAD-KEY"), HeaderString("AXON-0A1B-0000-0000-0001") }

RouteInit ==
  /\ \E env \in Environments \cup UnenforcedEnvironments :
       /\ config = [LICENSE_ENFORCE |-> env.LICENSE_ENFORCE,
                    LICENSE_KEY_PREFIX |-> env.LICENSE_KEY_PREFIX,
                    PADDLE_WEBHOOK_SECRET |-> env.PADDLE_WEBHOOK_SECRET,
                    PADDLE_WEBHOOK_TOLERANCE_SEC |-> env.PADDLE_WEBHOOK_TOLERANCE_SEC]
       /\ db = env.db
  /\ now = 0
  /\ licenses = {}
  /\ processedEvents = {}
  /\ delivery = [p \in Deliveries |-> IdleDelivery]
  /\ request = IdleRequest
  /\ client = IdleClient

\* Requests to every route, while one subscription.created event signed by
\* the provider is processed.
RouteNext ==
  \/ Receive(1, RawBodyList[1], SignedHeader("whsec_live", "1", RawBodyList[1]))
  \/ Reserve(1)
  \/ SelectExisting(1)
  \/ \E random \in RandomGroups : InsertLicense(1, random)
  \/ \E method \in RequestMethods, path \in RequestPaths, header \in RouteHeaders :
       GateUse(method, path, header)
  \/ \E method \in RequestMethods, path \in RequestPaths, header \in RouteHeaders :
       Bypass(method, path, header)
  \/ \E key \in PresentedKeys : ValidateEndpoint(key)
  \/ ValidateSelect
  \/ Tick

RouteSpec == RouteInit /\ [][RouteNext]_vars

\* ------------------------------------------------- event types

\* The events evt_1 (subscription sub_1) and evt_6 (subscription sub_2) are
\* delivered any number of times, one delivery after the other, and one event
\* evt_7 of any type is delivered beside them.
LifecycleNext ==
  \/ \E raw \in {RawBodyList[1], RawBodyList[6]} :
       Receive(1, raw, SignedHeader("whsec_live", "1", raw))
  \/ Forget(1)
  \/ \E raw \in TypedBodies : Receive(2, raw, SignedHeader("whsec_live", "1", raw))
  \/ \E p \in {1, 2} : Reserve(p)
  \/ \E p \in {1, 2} : SelectExisting(p)
  \/ \E p \in {1, 2} : UpdateExisting(p)
  \/ \E p \in {1, 2}, random \in RandomGroups : InsertLicense(p, random)
  \/ \E p \in {1, 2} : DeactivateUpdate(p)
  \/ \E p \in {1, 2} : Rollback(p)
  \/ Tick

LifecycleSpec == Init /\ [][LifecycleNext]_vars

\* ------------------------------------------------- webhook signatures

\* The settings of PADDLE_WEBHOOK_TOLERANCE_SEC and PADDLE_WEBHOOK_SECRET a
\* deployment can carry besides those of Environments.
SignatureEnvironments ==
  { [LICENSE_ENFORCE |-> "true", LICENSE_KEY_PREFIX |-> NULL,
     PADDLE_WEBHOOK_SECRET |-> secret, PADDLE_WEBHOOK_TOLERANCE_SEC |-> tolerance,
     db |-> TRUE] :
      secret \in {"whsec_live", ""},
      tolerance \in {"", "300", "2", "-1", "abc", "1s", "0x10"} }

SignatureInit ==
  /\ \E env \in Environments \cup SignatureEnvironments :
       /\ config = [LICENSE_ENFORCE |-> env.LICENSE_ENFORCE,
                    LICENSE_KEY_PREFIX |-> env.LICENSE_KEY_PREFIX,
                    PADDLE_WEBHOOK_SECRET |-> env.PADDLE_WEBHOOK_SECRET,
                    PADDLE_WEBHOOK_TOLERANCE_SEC |-> env.PADDLE_WEBHOOK_TOLERANCE_SEC]
       /\ db = env.db
  /\ now = 0
  /\ licenses = {}
  /\ processedEvents = {}
  /\ delivery = [p \in Deliveries |-> IdleDelivery]
  /\ request = IdleRequest
  /\ client = IdleClient

\* One webhook with any of the signature headers, processed to its end.
SignatureNext ==
  \/ \E w \in SignatureInputs : Receive(1, w[1], w[2])
  \/ Reserve(1)
  \/ SelectExisting(1)
  \/ \E random \in RandomGroups : InsertLicense(1, random)
  \/ DeactivateUpdate(1)
  \/ Tick

SignatureSpec == SignatureInit /\ [][SignatureNext]_vars

\* ------------------------------------------------- plans

\* The events of subscription sub_1 are delivered one after the other: its
\* creation, its updates to each plan, its cancellation.
PlanNext ==
  \/ \E raw \in PlanBodies \cup {RawBodyList[1], RawBodyList[3]} :
       Receive(1, raw, SignedHeader("whsec_live", "1", raw))
  \/ Reserve(1)
  \/ SelectExisting(1)
  \/ UpdateExisting(1)
  \/ \E random \in RandomGroups : InsertLicense(1, random)
  \/ DeactivateUpdate(1)
  \/ Forget(1)

PlanSpec == Init /\ [][PlanNext]_vars

\* ------------------------------------------------- redelivery

\* The provider delivers the events of subscription sub_1 (created with an
\* email, updated twice without, canceled), each any number of times, two
\* deliveries being in progress at most.
RedeliveryBodies ==
  { RawBodyList[i] : i \in {1, 2, 3} }
    \cup { TypedBody("subscription.updated", SubscriptionFieldList[1]) }

RedeliveryInputs ==
  { <<raw, SignedHeader("whsec_live", "1", raw)>> : raw \in RedeliveryBodies }

RedeliveryNext ==
  \/ \E p \in Deliveries, w \in RedeliveryInputs : Receive(p, w[1], w[2])
  \/ \E p \in Deliveries : Reserve(p)
  \/ \E p \in Deliveries : SelectExisting(p)
  \/ \E p \in Deliveries : UpdateExisting(p)
  \/ \E p \in Deliveries, random \in RandomGroups : InsertLicense(p, random)
  \/ \E p \in Deliveries : DeactivateUpdate(p)
  \/ \E p \in Deliveries : Rollback(p)
  \/ \E p \in Deliveries : Forget(p)
  \/ Tick

RedeliverySpec == Init /\ [][RedeliveryNext]_vars

\* ------------------------------------------------- client requests

\* getOrCreateDeviceId: the stored device id, or a generated one that is
\* stored.
getOrCreateDeviceId(state, generated) ==
  IF Len(Trim(state.deviceId)) > 0
  THEN [deviceId |-> state.deviceId, state |-> state]
  ELSE [deviceId |-> generated, state |-> [state EXCEPT !.deviceId = generated]]

\* getHostedAccessHeaders: the entries to add, and the store afterwards.
getHostedAccessHeaders(state, generated) ==
  IF ~state.isConfigured \/ state.mode # "hosted"
  THEN [entries |-> <<>>, state |-> state]
  ELSE IF Trim(state.licenseKey) = ""
  THEN [entries |-> <<>>, state |-> state]
  ELSE LET device == getOrCreateDeviceId(state, generated)
       IN [entries |-> << <<"X-License-Key", Trim(state.licenseKey)>>,
                          <<"X-Device-Id", device.deviceId>> >>,
           state |-> device.state]

\* A loop body that sets its entry over the caller's.
AppendEntry_Overwrite(headers, entry) ==
  HeadersSet(headers, entry[1], entry[2])

\* The body of the loop of appendHostedAccessHeaders.
AppendEntry(headers, entry) ==
  IF ~HeadersHas(headers, entry[1])
  THEN HeadersSet(headers, entry[1], entry[2])
  ELSE headers

\* appendHostedAccessHeaders: the loop over the entries.
RECURSIVE appendHostedAccessHeaders(_, _)
appendHostedAccessHeaders(headers, entries) ==
  IF entries = <<>> THEN headers
  ELSE appendHostedAccessHeaders(AppendEntry(headers, entries[1]),
                                 SubSeq(entries, 2, Len(entries)))

\* What generateDeviceId can return, of its 2^128 values.
GeneratedDeviceIds == {"axon-00", "axon-ff"}

\* fetchWithAccessHeaders: the request that reaches fetch.
fetchWithAccessHeaders(init, generated) ==
  /\ LET access == getHostedAccessHeaders(client.store, generated)
     IN client' = [ store |-> access.state, fetched |-> TRUE, init |-> init,
                    headers |-> appendHostedAccessHeaders(NewHeaders(init),
                                                          access.entries) ]
  /\ UNCHANGED <<config, db, now, licenses, processedEvents, delivery, request>>

\* The server access store of an app: set up or not, in either mode, with the
\* license keys and device ids a store can hold.
ServerAccessStates ==
  [ isConfigured : BOOLEAN, mode : {"hosted", "self_hosted"},
    licenseKey : {"", "  ", "AXON-TEST-KEY", " AXON-TEST-KEY "},
    deviceId : {"", " ", "device-123"} ]

\* The headers a caller passes in init.
CallerHeaders ==
  { <<>>,
    << <<"Content-Type", "application/json">> >>,
    << <<"X-License-Key", "CALLER-KEY">> >>,
    << <<"x-license-key", "">> >>,
    << <<"X-DEVICE-ID", "caller-device">> >>,
    << <<"X-License-Key", "K1">>, <<"X-Device-Id", "D1">> >>,
    << <<"X-License-Key", "K1">>, <<"x-license-key", "K2">> >> }

ClientInit ==
  /\ \E env \in Environments :
       /\ config = [LICENSE_ENFORCE |-> env.LICENSE_ENFORCE,
                    LICENSE_KEY_PREFIX |-> env.LICENSE_KEY_PREFIX,
                    PADDLE_WEBHOOK_SECRET |-> env.PADDLE_WEBHOOK_SECRET,
                    PADDLE_WEBHOOK_TOLERANCE_SEC |-> env.PADDLE_WEBHOOK_TOLERANCE_SEC]
       /\ db = env.db
  /\ now = 0
  /\ licenses = {}
  /\ processedEvents = {}
  /\ delivery = [p \in Deliveries |-> IdleDelivery]
  /\ request = IdleRequest
  /\ \E state \in ServerAccessStates : client = [IdleClient EXCEPT !.store = state]

ClientNext ==
  \E init \in CallerHeaders, generated \in GeneratedDeviceIds :
    fetchWithAccessHeaders(init, generated)

ClientSpec == ClientInit /\ [][ClientNext]_vars

\* ------------------------------------------------- properties

\* Where a delivery is: it holds the reservation of its event from the
\* moment its insert into processed_events returned a row until its rollback.
Holds(p) ==
  /\ delivery[p].won
  /\ ~(delivery[p].pc = "done" /\ delivery[p].error # NoError)

Reserved(p) == delivery[p].pc \notin {"idle", "reserve"} /\ delivery[p].payload # NoPayload

SameEvent(p, q) == delivery[p].payload.eventId = delivery[q].payload.eventId

\* C1: of all the deliveries of one eventId, at most one holds the
\* reservation at a time and at most one has inserted or updated a License
\* row; a delivery that found the reservation taken has returned ok with
\* action "duplicate" and has written nothing to the License table.
C1_OneMutationPerEvent ==
  /\ \A p, q \in Deliveries :
       (p # q /\ Reserved(p) /\ Reserved(q) /\ SameEvent(p, q)) =>
         /\ ~(Holds(p) /\ Holds(q))
         /\ ~(delivery[p].writes > 0 /\ delivery[q].writes > 0)
  /\ \A p \in Deliveries :
       (Reserved(p) /\ ~delivery[p].won) =>
         /\ delivery[p].pc = "done"
         /\ delivery[p].action = "duplicate"
         /\ delivery[p].error = NoError
         /\ delivery[p].writes = 0
  /\ \A p \in Deliveries :
       Holds(p) => \E e \in processedEvents :
                     e.id = p /\ e.eventId = delivery[p].payload.eventId
  /\ \A e, f \in processedEvents : e.eventId = f.eventId => e = f

\* C1 witness: one delivery of an event has created the License and a second
\* delivery of the same event was answered "duplicate".
C1_Witness ==
  \E p, q \in Deliveries :
    /\ p # q /\ Reserved(p) /\ Reserved(q) /\ SameEvent(p, q)
    /\ delivery[p].pc = "done" /\ delivery[p].action = "activated"
    /\ delivery[p].writes = 1
    /\ delivery[q].pc = "done" /\ delivery[q].action = "duplicate"
    /\ Cardinality(licenses) = 1

NoLedgerRow(rows, eventId) == \A e \in rows : e.eventId # eventId

C3_UniqueKeyAndSubscription ==
  \A r1, r2 \in licenses :
    r1 # r2 =>
      /\ r1.key # r2.key
      /\ r1.id # r2.id
      /\ (r1.paddleSubscriptionId # NULL =>
            r1.paddleSubscriptionId # r2.paddleSubscriptionId)

\* C3 witness: two activating events with distinct eventIds for the same
\* unseen subscription both read "no License", one inserted the row and the
\* insert of the other failed on the unique index.
C3_Witness ==
  \E p, q \in Deliveries :
    /\ p # q /\ ~SameEvent(p, q)
    /\ delivery[p].pc = "done" /\ delivery[p].writes = 1
    /\ delivery[p].action \in {"activated", "updated"}
    /\ delivery[q].pc = "rollback" /\ delivery[q].error = DatastoreError
    /\ extractSubscriptionId(delivery[p].payload.data)
         = extractSubscriptionId(delivery[q].payload.data)
    /\ Cardinality(licenses) = 1

\* The step in which the key loop of delivery p inserts its License row.
Inserts(p) ==
  delivery[p].pc = "insert" /\ delivery'[p].pc = "done" /\ licenses' # licenses

\* The step in which the update of deactivateLicense of delivery p runs.
Deactivates(p) == delivery[p].pc = "deactivate" /\ delivery'[p].pc = "done"

Blocked(res) == ~res.valid /\ res.code = "LICENSE_BLOCKED" /\ res.statusCode = 403

\* C4 as stated: validateLicenseKey with the key of a License an activating
\* event has just created returns valid: true, and after a deactivating event
\* for the subscription it returns LICENSE_BLOCKED (403).
C4_ActivationAlwaysValid ==
  [][ /\ \A p \in Deliveries : Inserts(p) =>
           \A r \in licenses' \ licenses :
             validateLicenseKey(config, db, licenses', now', r.key).valid
      /\ \A p \in Deliveries : Deactivates(p) =>
           \A r \in licenses' :
             r.paddleSubscriptionId = extractSubscriptionId(delivery[p].payload.data)
               => Blocked(validateLicenseKey(config, db, licenses', now', r.key))
    ]_vars

\* C4 amended: validateLicenseKey with the key of a License an activating
\* event has just created returns valid: true with that License when the row
\* was stored with status "active" and an expiresAt later than now; it
\* returns LICENSE_BLOCKED when the payload's status is another one and
\* LICENSE_EXPIRED when the row is active and expiresAt <= now.  After a
\* deactivating event for the subscription it returns LICENSE_BLOCKED (403).
C4_ActivationValidWhenActiveAndUnexpired ==
  [][ /\ \A p \in Deliveries : Inserts(p) =>
           \A r \in licenses' \ licenses :
             LET res == validateLicenseKey(config, db, licenses', now', r.key) IN
             /\ r.paddleSubscriptionId = extractSubscriptionId(delivery[p].payload.data)
             /\ (r.status = "active" /\ r.expiresAt > now')
                  => (res.valid /\ res.license = <<r>>)
             /\ r.status # "active" => Blocked(res)
             /\ (r.status = "active" /\ r.expiresAt <= now')
                  => (res.code = "LICENSE_EXPIRED" /\ res.statusCode = 402)
      /\ \A p \in Deliveries : Deactivates(p) =>
           \A r \in licenses' :
             r.paddleSubscriptionId = extractSubscriptionId(delivery[p].payload.data)
               => Blocked(validateLicenseKey(config, db, licenses', now', r.key))
    ]_vars

\* C4 witness: an activating event created a License, a deactivating event
\* for its subscription was applied, and a validation of the generated key
\* was then answered LICENSE_BLOCKED.
C4_Witness ==
  \E p, q \in Deliveries : \E r \in licenses :
    /\ delivery[p].pc = "done" /\ delivery[p].action = "activated"
    /\ delivery[p].writes = 1
    /\ delivery[q].pc = "done" /\ delivery[q].action = "deactivated"
    /\ delivery[q].writes = 1
    /\ r.status = "canceled"
    /\ request.pc = "done" /\ request.validated /\ Trim(request.key) = r.key
    /\ Blocked(request.result[1])
    /\ request.result[1].details = << [status |-> "canceled"] >>

\* What C5 says a valid key is, on the table and the clock of a state.
ShouldBeValid(key) ==
  /\ Trim(key) # ""
  /\ StartsWith(Trim(key), IF config.LICENSE_KEY_PREFIX \in {NULL, ""}
                           THEN "AXON-" ELSE config.LICENSE_KEY_PREFIX)
  /\ db
  /\ \E r \in licenses : r.key = Trim(key) /\ r.status = "active" /\ r.expiresAt > now

\* A step in which a call of validateLicenseKey returns to its caller.
ValidateReturns ==
  /\ request' # request
  /\ request'.pc = "done"
  /\ request'.validated

\* C5: a call of validateLicenseKey returns valid: true, with LICENSE_VALID,
\* 200 and the License row of the key, exactly when the trimmed key is not
\* empty, starts with the configured prefix (AXON- by default), a datastore is
\* there and the row with that key is active and expires later than now;
\* otherwise it returns valid: false and no License.
C5_ValidExactlyWhenActiveAndUnexpired ==
  [][ ValidateReturns =>
        LET res == request'.result[1] IN
        /\ res.valid <=> ShouldBeValid(request'.key)
        /\ res.valid =>
             /\ res.code = "LICENSE_VALID" /\ res.statusCode = 200
             /\ \E r \in licenses : r.key = Trim(request'.key) /\ res.license = <<r>>
        /\ ~res.valid => (res.license = <<>> /\ res.code # "LICENSE_VALID")
    ]_vars

\* C5 witness: the validation endpoint answered 200 for a key presented with
\* blanks around it.
C5_Witness ==
  /\ request.pc = "done" /\ request.kind = "endpoint" /\ request.validated
  /\ request.key # Trim(request.key)
  /\ request.result[1].valid
  /\ request.status = 200
  /\ request.result[1].license[1].expiresAt > now

\* C6: when the select of validateLicenseKey finds a row, a status other
\* than "active" gives LICENSE_BLOCKED (403) whatever expiresAt is, and status
\* "active" with expiresAt <= now gives LICENSE_EXPIRED (402).
C6_BlockedBeforeExpired ==
  [][ (request.pc = "select" /\ request'.pc = "done") =>
        \A r \in licenses :
          r.key = Trim(request.key) =>
            LET res == request'.result[1] IN
            /\ r.status # "active" =>
                 (Blocked(res) /\ res.details = << [status |-> r.status] >>)
            /\ (r.status = "active" /\ r.expiresAt <= now) =>
                 /\ ~res.valid /\ res.code = "LICENSE_EXPIRED" /\ res.statusCode = 402
                 /\ res.details = << [expiresAt |-> r.expiresAt] >>
    ]_vars

\* C6 witness: the table holds a License that is not active and expired, and
\* a validation of an active License whose expiresAt equals now was answered
\* LICENSE_EXPIRED.
C6_Witness ==
  /\ \E r \in licenses : r.status # "active" /\ r.expiresAt <= now
  /\ \E r \in licenses :
       /\ r.status = "active" /\ r.expiresAt = now
       /\ request.pc = "done" /\ request.validated /\ Trim(request.key) = r.key
       /\ request.result[1].code = "LICENSE_EXPIRED"

\* The prefix the deployment is configured with.
ConfiguredPrefix ==
  IF config.LICENSE_KEY_PREFIX \in {NULL, ""} THEN "AXON-" ELSE config.LICENSE_KEY_PREFIX

\* s holds nothing but blanks.
Blank(s) == \A i \in 1..Len(s) : SubSeq(s, i, i) = " "

\* The request is in, or past, a call of validateLicenseKey.
Validating == request.pc \in {"select", "done"} /\ request.validated

\* C7: a call of validateLicenseKey with a key that is not blank and does not
\* start with the configured prefix has returned LICENSE_INVALID (401) without
\* a select, with or without datastore; and so it would on every table.
C7_WrongPrefixInvalid ==
  /\ (Validating /\ ~Blank(request.key)
        /\ ~StartsWith(Trim(request.key), ConfiguredPrefix)) =>
       /\ request.pc = "done"
       /\ ~request.result[1].valid
       /\ request.result[1].code = "LICENSE_INVALID"
       /\ request.result[1].statusCode = 401
       /\ request.result[1].details = << [expectedPrefix |-> ConfiguredPrefix] >>
  /\ \A key \in PresentedKeys :
       (~Blank(key) /\ ~StartsWith(Trim(key), ConfiguredPrefix)) =>
         LET res == validateLicenseKey(config, db, licenses, now, key) IN
         ~res.valid /\ res.code = "LICENSE_INVALID" /\ res.statusCode = 401

\* C7 witness: without datastore, a key with a wrong prefix was answered
\* LICENSE_INVALID.
C7_Witness ==
  /\ ~db
  /\ request.pc = "done" /\ request.validated
  /\ request.key = "BAD-KEY"
  /\ request.result[1].code = "LICENSE_INVALID"

\* C8: without datastore, a call of validateLicenseKey with a key that is not
\* blank and starts with the configured prefix has returned
\* LICENSE_BACKEND_UNAVAILABLE (503).
C8_NoDatastoreUnavailable ==
  (~db /\ Validating /\ ~Blank(request.key)
     /\ StartsWith(Trim(request.key), ConfiguredPrefix)) =>
    /\ request.pc = "done"
    /\ ~request.result[1].valid
    /\ request.result[1].code = "LICENSE_BACKEND_UNAVAILABLE"
    /\ request.result[1].statusCode = 503
    /\ request.status = 503

\* C8 witness: without datastore, the validation endpoint answered 503 for a
\* key with the configured prefix.
C8_Witness ==
  /\ ~db
  /\ request.pc = "done" /\ request.kind = "endpoint"
  /\ StartsWith(Trim(request.key), ConfiguredPrefix)
  /\ request.status = 503

\* The first value of the X-License-Key header is absent or blank.
NoKeyPresented(h) ==
  \/ h.kind = "undefined"
  \/ h.kind = "string" /\ Blank(h.values[1])
  \/ h.kind = "array" /\ (h.values = <<>> \/ Blank(h.values[1]))

\* C9: with enforcement on, the gate calls validateLicenseKey for a request
\* that presents a key; it calls next (once) exactly when the result is
\* valid, and then attaches the License and writes no response; on an
\* invalid result it answers with the result's statusCode, code, message and
\* details and does not call next.
C9_GateFollowsValidator ==
  (request.kind = "gate" /\ config.LICENSE_ENFORCE = "true"
     /\ ~NoKeyPresented(request.header)) =>
    /\ Validating
    /\ request.pc = "select" =>
         (request.nextCalls = 0 /\ request.status = 0 /\ request.license = <<>>)
    /\ request.pc = "done" =>
         LET res == request.result[1] IN
         /\ request.nextCalls = (IF res.valid THEN 1 ELSE 0)
         /\ res.valid =>
              /\ request.license = res.license /\ request.license # <<>>
              /\ request.status = 0 /\ request.body = <<>>
         /\ ~res.valid =>
              /\ request.license = <<>>
              /\ request.status = res.statusCode
              /\ request.body = << [statusCode |-> res.statusCode, code |-> res.code,
                                    message |-> res.message, details |-> res.details] >>

\* C9 witness: the gate let a request through with the License attached.
C9_Witness ==
  /\ request.kind = "gate" /\ request.pc = "done"
  /\ config.LICENSE_ENFORCE = "true"
  /\ request.nextCalls = 1
  /\ request.license # <<>>
  /\ request.license[1].key = Trim(readHeaderValue(request.header))

\* C10: with enforcement on, a request whose X-License-Key is absent, empty
\* or blank (the first value of a repeated header counts) is answered 401
\* LICENSE_REQUIRED; validateLicenseKey and next are not called.
C10_MissingKeyRequired ==
  (request.kind = "gate" /\ config.LICENSE_ENFORCE = "true"
     /\ NoKeyPresented(request.header)) =>
    /\ request.pc = "done"
    /\ request.status = 401
    /\ request.body # <<>>
    /\ request.body[1].statusCode = 401
    /\ request.body[1].code = "LICENSE_REQUIRED"
    /\ ~request.validated
    /\ request.result = <<>>
    /\ request.nextCalls = 0

\* C10 witness: a repeated header whose first value is blank and whose second
\* is a key was denied.
C10_Witness ==
  /\ request.kind = "gate" /\ request.pc = "done"
  /\ config.LICENSE_ENFORCE = "true"
  /\ request.header.kind = "array" /\ Len(request.header.values) = 2
  /\ request.status = 401

\* C11: when LICENSE_ENFORCE is not the exact string "true" (unset, empty,
\* "false", "True", "1", " true", "TRUE"), a request that passes the gate has
\* had next called exactly once, validateLicenseKey not called, no License
\* attached and no response written, whatever its X-License-Key header.
C11_UnenforcedGateCallsNextOnce ==
  (request.kind = "gate" /\ config.LICENSE_ENFORCE # "true") =>
    /\ request.pc = "done"
    /\ request.nextCalls = 1
    /\ ~request.validated
    /\ request.result = <<>>
    /\ request.status = 0
    /\ request.body = <<>>
    /\ request.license = <<>>

\* C11 witness: with LICENSE_ENFORCE unset and a License in the table, a
\* request that presents a key of no License went through the gate.
C11_Witness ==
  /\ config.LICENSE_ENFORCE = NULL
  /\ licenses # {}
  /\ request.kind = "gate" /\ request.pc = "done"
  /\ request.header = HeaderString("BAD-KEY")
  /\ request.nextCalls = 1

\* The seven (method, path) pairs C12 lists.
ListedPair(method, path) ==
  \/ /\ method = "POST"
     /\ path \in { "license/validate", "api/license/validate",
                   "license/webhook/paddle", "api/license/webhook/paddle" }
  \/ /\ method = "GET"
     /\ \/ path \in { "health", "api/docs" }
        \/ Len(path) >= 9 /\ SubSeq(path, 1, 9) = "api/docs/"

\* C12: the gate runs for a request exactly when its (method, path) is none
\* of the seven listed pairs; with enforcement on, such a request has reached
\* its handler (next was called) only once validateLicenseKey has returned
\* valid: true for its key.
C12_GateOnAllButSevenRoutes ==
  /\ \A method \in RequestMethods, path \in RequestPaths :
       isRouteExcluded(method, path) <=> ListedPair(method, path)
  /\ request.pc # "idle" =>
       /\ (request.kind = "gate") <=> ~ListedPair(request.method, request.path)
       /\ (request.kind = "gate" /\ config.LICENSE_ENFORCE = "true"
             /\ request.nextCalls > 0) =>
            /\ request.nextCalls = 1
            /\ request.validated
            /\ request.result # <<>>
            /\ request.result[1].valid
            /\ request.license = request.result[1].license

\* C12 witness: with enforcement on, a HEAD request to health (a listed path
\* under another method) reached its handler with a valid key.
C12_Witness ==
  /\ config.LICENSE_ENFORCE = "true"
  /\ request.kind = "gate" /\ request.pc = "done"
  /\ request.method = "HEAD" /\ request.path = "health"
  /\ request.nextCalls = 1
  /\ request.result[1].valid

\* The paths of the allow-list, whatever the method.
AllowListedPath(path) == \E method \in {"GET", "POST"} : ListedPair(method, path)

\* The gate has denied the request.
DeniedByGate == request.kind = "gate" /\ request.pc = "done" /\ request.status # 0

\* C13 as stated: with enforcement on, a request to an allow-listed path with
\* no X-License-Key header is never denied by the gate, whatever its method.
C13_AllowListedPathAnyMethod ==
  (config.LICENSE_ENFORCE = "true" /\ request.pc # "idle"
     /\ AllowListedPath(request.path) /\ request.header = NoHeader) =>
    ~DeniedByGate

\* C13 amended: with enforcement on, a request to an allow-listed path under
\* its listed method (POST for license validation and the Paddle webhook, GET
\* for health and the API docs) does not pass the gate and is not denied by
\* it, with or without X-License-Key header; a request to such a path under
\* another method passes the gate, which denies it 401 LICENSE_REQUIRED when
\* it carries no X-License-Key header.
C13_AllowListedRouteBypassesGate ==
  (config.LICENSE_ENFORCE = "true" /\ request.pc # "idle"
     /\ AllowListedPath(request.path)) =>
    /\ ListedPair(request.method, request.path) =>
         /\ request.kind \in {"direct", "endpoint"}
         /\ ~DeniedByGate
         /\ request.nextCalls = 0
         /\ request.kind = "direct" =>
              (request.pc = "done" /\ ~request.validated /\ request.status = 0)
    /\ (~ListedPair(request.method, request.path) /\ request.header = NoHeader) =>
         /\ DeniedByGate
         /\ request.status = 401
         /\ request.body[1].code = "LICENSE_REQUIRED"
         /\ request.nextCalls = 0

\* C13 witness: with enforcement on, a GET of the health check and a file of
\* the API docs without X-License-Key header reached the router.
C13_Witness ==
  /\ config.LICENSE_ENFORCE = "true"
  /\ request.kind = "direct" /\ request.pc = "done"
  /\ request.method = "GET" /\ request.path = "api/docs/swagger-ui.css"
  /\ request.header = NoHeader
  /\ request.status = 0

\* The step in which processPaddleWebhook is called for delivery p.
ReceiveStep(p) == delivery[p].pc = "idle" /\ delivery'[p].pc # "idle"

\* The delivery went past the signature check and the payload check.
Processed(d) == d.pc # "done" \/ d.won \/ d.action # ""

\* C14: the verifier rejects a webhook with PADDLE_NOT_CONFIGURED (503) when
\* no secret is configured, with PADDLE_SIGNATURE_MISSING (401) when the
\* header is absent, with PADDLE_SIGNATURE_INVALID (401) when the header
\* lacks ts or h1; and a webhook whose h1 is not the hex HMAC-SHA256 of
\* ts:rawBody under the secret is rejected and its event is not processed.
\* The last part is stated in the reading most favourable to the code: the
\* rejection may be PADDLE_SIGNATURE_EXPIRED when the ts is outside the
\* tolerance, and h1 may be written in upper-case digits.
C14_WrongSignatureRejected ==
  [][ \A p \in Deliveries : ReceiveStep(p) =>
        LET d == delivery'[p]
            secret == config.PADDLE_WEBHOOK_SECRET
            parsed == parsePaddleSignatureHeader(d.signatureHeader)
        IN /\ secret \in {NULL, ""} =>
                (d.pc = "done" /\ d.error = LicenseHttpError(503, "PADDLE_NOT_CONFIGURED"))
           /\ (secret \notin {NULL, ""} /\ d.signatureHeader \in {NULL, ""}) =>
                (d.pc = "done" /\ d.error = LicenseHttpError(401, "PADDLE_SIGNATURE_MISSING"))
           /\ (secret \notin {NULL, ""} /\ d.signatureHeader \notin {NULL, ""}
                 /\ parsed.error # NoError) =>
                (d.pc = "done" /\ d.error = LicenseHttpError(401, "PADDLE_SIGNATURE_INVALID"))
           /\ (secret \notin {NULL, ""} /\ parsed.error = NoError
                 /\ [i \in 1..Len(parsed.signature) |->
                       HexLower(SubSeq(parsed.signature, i, i))]
                      # [i \in 1..6 |->
                          SubSeq(hmacHex(secret, parsed.timestamp, d.rawBody), i, i)]) =>
                /\ d.pc = "done"
                /\ d.error \in { LicenseHttpError(401, "PADDLE_SIGNATURE_INVALID"),
                                  LicenseHttpError(401, "PADDLE_SIGNATURE_EXPIRED") }
                /\ ~Processed(d)
    ]_vars

\* C15: for a webhook with a configured secret and a header that has ts and
\* h1, with T the integer read from PADDLE_WEBHOOK_TOLERANCE_SEC (300 when it
\* is unset or empty), the verifier rejects with PADDLE_SIGNATURE_EXPIRED
\* (401) exactly when T > 0, ts reads as an integer and |now - ts| > T; a
\* drift of exactly T passes the check, and so does any drift when T is 0,
\* negative or not a number.
C15_ExpiredExactlyBeyondTolerance ==
  [][ \A p \in Deliveries : ReceiveStep(p) =>
        LET d == delivery'[p]
            parsed == parsePaddleSignatureHeader(d.signatureHeader)
            raw == config.PADDLE_WEBHOOK_TOLERANCE_SEC
            T == IF raw \in {NULL, ""} THEN [finite |-> TRUE, value |-> 300]
                 ELSE parseInt(raw)
            ts == parseInt(parsed.timestamp)
            expired == d.pc = "done"
                         /\ d.error = LicenseHttpError(401, "PADDLE_SIGNATURE_EXPIRED")
        IN (config.PADDLE_WEBHOOK_SECRET \notin {NULL, ""} /\ parsed.error = NoError) =>
             /\ expired <=>
                  /\ T.finite /\ T.value > 0 /\ ts.finite
                  /\ (now - ts.value > T.value \/ ts.value - now > T.value)
             /\ expired => ~Processed(d)
    ]_vars

\* C15 witness: with the default tolerance, a webhook signed 300 seconds ago
\* was accepted, and its event was applied.
C15_Witness ==
  /\ config.PADDLE_WEBHOOK_TOLERANCE_SEC = NULL
  /\ delivery[1].signatureHeader = SignedHeader("whsec_live", "-300", RawBodyList[1])
  /\ delivery[1].pc = "done"
  /\ delivery[1].error = NoError
  /\ delivery[1].action = "activated"
  /\ licenses # {}

\* The keys and the subscription ids of the License table.
StoredKeys == { r.key : r \in licenses }

StoredSubscriptions == { r.paddleSubscriptionId : r \in licenses }

\* The insert attempt of delivery p with generated key k goes as C16 says
\* when the key is free: the row is inserted with key k, which starts with
\* the configured prefix, passes the prefix check of the validator and is
\* the key of no row stored before, and the event is applied.
AttemptSucceeds(p, k) ==
  /\ \E r \in licenses' : licenses' = licenses \cup {r} /\ r \notin licenses /\ r.key = k
  /\ StartsWith(k, ConfiguredPrefix)
  /\ ValidateBeforeSelect(config, db, k) = <<>>
  /\ k \notin StoredKeys
  /\ delivery'[p].pc = "done" /\ delivery'[p].error = NoError
  /\ delivery'[p].writes = 1

\* The insert attempt of delivery p collides on its key: no row is inserted,
\* it is attempt number 1..5, and after the fifth the engine fails with
\* LICENSE_KEY_GENERATION_FAILED (500), having written no License row.
AttemptCollides(p) ==
  /\ licenses' = licenses
  /\ delivery'[p].attempt = delivery[p].attempt + 1
  /\ delivery'[p].attempt <= 5
  /\ delivery'[p].attempt < 5 =>
       (delivery'[p].pc = "insert" /\ delivery'[p].error = NoError)
  /\ delivery'[p].attempt = 5 =>
       /\ delivery'[p].pc = "rollback"
       /\ delivery'[p].error = LicenseHttpError(500, "LICENSE_KEY_GENERATION_FAILED")
       /\ delivery'[p].writes = 0

\* C16 as stated: every insert attempt of the key loop whose generated key
\* is the key of no stored row succeeds (the License is created with that
\* key, which starts with the configured prefix); an attempt whose key is
\* taken inserts nothing, and the fifth such attempt fails with
\* LICENSE_KEY_GENERATION_FAILED (500).
C16_FirstFreeKeySucceeds ==
  [][ \A p \in Deliveries, random \in RandomGroups :
        InsertLicense(p, random) =>
          LET k == buildLicenseKey(KeyPrefix(config), random) IN
          /\ delivery[p].attempt < 5
          /\ k \notin StoredKeys => AttemptSucceeds(p, k)
          /\ k \in StoredKeys => AttemptCollides(p)
    ]_vars

\* C16 amended: as C16, when no License with the event's subscription id
\* was inserted since the event looked it up; when one was, the attempt with
\* a free key fails on the unique index of paddleSubscriptionId: no row is
\* inserted and the engine fails with the datastore's error, not with
\* LICENSE_KEY_GENERATION_FAILED.
C16_FreeKeySucceedsUnlessSubscriptionTaken ==
  [][ \A p \in Deliveries, random \in RandomGroups :
        InsertLicense(p, random) =>
          LET k == buildLicenseKey(KeyPrefix(config), random)
              sub == extractSubscriptionId(delivery[p].payload.data)
          IN /\ delivery[p].attempt < 5
             /\ (k \notin StoredKeys /\ sub \notin StoredSubscriptions) =>
                  AttemptSucceeds(p, k)
             /\ (k \notin StoredKeys /\ sub \in StoredSubscriptions) =>
                  /\ licenses' = licenses
                  /\ delivery'[p].pc = "rollback"
                  /\ delivery'[p].error = DatastoreError
                  /\ delivery'[p].writes = 0
             /\ k \in StoredKeys => AttemptCollides(p)
    ]_vars

\* C16 witness: the five attempts of an activating event collided with the
\* key of the License of another subscription, and the event failed with
\* LICENSE_KEY_GENERATION_FAILED leaving that License alone.
C16_Witness ==
  \E p \in Deliveries :
    /\ delivery[p].pc = "done"
    /\ delivery[p].error = LicenseHttpError(500, "LICENSE_KEY_GENERATION_FAILED")
    /\ delivery[p].writes = 0
    /\ Cardinality(licenses) = 1
    /\ \A r \in licenses :
         r.paddleSubscriptionId # extractSubscriptionId(delivery[p].payload.data)

\* The payload is an activating event without subscription id.
ActivatingWithoutSubscription(payload) ==
  /\ payload.eventType \in PADDLE_ACTIVATING_EVENTS
  /\ \A f \in {"id", "subscription_id", "subscription.id"} :
       payload.data[f] = NULL \/ Blank(payload.data[f])

\* C17: an activating event whose data has no subscription id at id,
\* subscription_id or subscription.id fails, once it holds its reservation,
\* with PADDLE_SUBSCRIPTION_ID_MISSING (400) without a statement on the
\* License table; the step in which the error is returned leaves no ledger
\* row for the eventId, and the License table is what it was.
C17_MissingSubscriptionIdFails ==
  [][ \A p \in Deliveries :
        /\ ( /\ delivery[p].pc = "reserve" /\ delivery'[p].won
             /\ ActivatingWithoutSubscription(delivery[p].payload) ) =>
             /\ delivery'[p].pc = "rollback"
             /\ delivery'[p].error = LicenseHttpError(400, "PADDLE_SUBSCRIPTION_ID_MISSING")
             /\ licenses' = licenses
        /\ ( /\ delivery[p].pc # "idle" /\ delivery'[p] # delivery[p]
             /\ ActivatingWithoutSubscription(delivery[p].payload) ) =>
             /\ licenses' = licenses
             /\ delivery'[p].writes = 0
             /\ delivery'[p].pc = "done" =>
                  /\ delivery'[p].action \in {"", "duplicate"}
                  /\ delivery'[p].action = "" =>
                       /\ delivery'[p].error
                            = LicenseHttpError(400, "PADDLE_SUBSCRIPTION_ID_MISSING")
                       /\ NoLedgerRow(processedEvents', delivery[p].payload.eventId)
    ]_vars

\* C17 witness: while the table holds a License, an activating event without
\* subscription id has failed with PADDLE_SUBSCRIPTION_ID_MISSING; the ledger
\* holds the event of the License and not the failed one.
C17_Witness ==
  \E p \in Deliveries :
    /\ delivery[p].pc = "done"
    /\ delivery[p].payload.eventType = "subscription.created"
    /\ delivery[p].payload.data = EmptyData
    /\ delivery[p].error = LicenseHttpError(400, "PADDLE_SUBSCRIPTION_ID_MISSING")
    /\ delivery[p].writes = 0
    /\ Cardinality(licenses) = 1
    /\ Cardinality(processedEvents) = 1
    /\ NoLedgerRow(processedEvents, delivery[p].payload.eventId)

\* The action C18 gives an event type.
ActionOfType(eventType) ==
  IF eventType = "subscription.created" THEN "activated"
  ELSE IF eventType \in { "subscription.activated", "subscription.updated",
                          "subscription.resumed", "subscription.trialing",
                          "subscription.past_due" } THEN "updated"
  ELSE IF eventType \in { "subscription.canceled", "subscription.cancelled",
                          "subscription.paused", "subscription.expired",
                          "subscription.terminated" } THEN "deactivated"
  ELSE "ignored"

\* C18: a delivery that won its reservation and has returned without error
\* has returned "activated" for subscription.created, "updated" for the five
\* other activating types, "deactivated" for the five deactivating types and
\* "ignored" for any other type; no type is both activating and deactivating,
\* and a delivery that won and returned an error returned no action.
C18_ActionFollowsEventType ==
  /\ PADDLE_ACTIVATING_EVENTS \cap PADDLE_DEACTIVATING_EVENTS = {}
  /\ \A p \in Deliveries :
       (delivery[p].pc = "done" /\ delivery[p].won) =>
         IF delivery[p].error = NoError
         THEN delivery[p].action = ActionOfType(delivery[p].payload.eventType)
         ELSE delivery[p].action = ""

\* C18 witness: a subscription.trialing event has updated the License that a
\* subscription.created event had created, and returned "updated".
C18_Witness ==
  /\ delivery[1].pc = "done" /\ delivery[1].action = "activated"
  /\ delivery[1].payload.eventType = "subscription.created"
  /\ delivery[2].pc = "done" /\ delivery[2].won /\ delivery[2].writes = 1
  /\ delivery[2].payload.eventType = "subscription.trialing"
  /\ delivery[2].action = "updated"

\* The status C19 gives a deactivating event type.
StatusOfType(eventType) ==
  IF eventType = "subscription.expired" THEN "expired"
  ELSE IF eventType = "subscription.paused" THEN "paused"
  ELSE "canceled"

\* C19: the update of a deactivating event whose subscription id is that of
\* a License sets the status of that row to "expired" for
\* subscription.expired, "paused" for subscription.paused and "canceled" for
\* the other deactivating types, and its updatedAt to the time the event was
\* applied; every other column of the row and every other row is what it
\* was, no row is gone, and the event returns "deactivated".
C19_DeactivationSetsStatusOnly ==
  [][ \A p \in Deliveries : Deactivates(p) =>
        LET sub == extractSubscriptionId(delivery[p].payload.data) IN
        \A r \in licenses :
          r.paddleSubscriptionId = sub =>
            /\ delivery[p].payload.eventType \in PADDLE_DEACTIVATING_EVENTS
            /\ \E t \in 0..now :
                 licenses' = (licenses \ {r}) \cup
                   { [r EXCEPT !.status = StatusOfType(delivery[p].payload.eventType),
                               !.updatedAt = t] }
            /\ Cardinality(licenses') = Cardinality(licenses)
            /\ delivery'[p].action = "deactivated"
            /\ delivery'[p].error = NoError
    ]_vars

\* C19 witness: the table holds the Licenses of two subscriptions; a
\* subscription.expired event for one of them was applied: that License is
\* "expired", the other is "active".
C19_Witness ==
  /\ delivery[2].pc = "done" /\ delivery[2].action = "deactivated"
  /\ delivery[2].payload.eventType = "subscription.expired"
  /\ delivery[2].writes = 1
  /\ Cardinality(licenses) = 2
  /\ \E r1, r2 \in licenses :
       /\ r1.paddleSubscriptionId = extractSubscriptionId(delivery[2].payload.data)
       /\ r1.status = "expired"
       /\ r2.paddleSubscriptionId # r1.paddleSubscriptionId
       /\ r2.status = "active"

\* The payload is a deactivating event that names no subscription, or the
\* subscription of no License of the table.
DeactivatesNothing(payload) ==
  /\ payload.eventType \in { "subscription.canceled", "subscription.cancelled",
                              "subscription.paused", "subscription.expired",
                              "subscription.terminated" }
  /\ \/ \A f \in {"id", "subscription_id", "subscription.id"} :
          payload.data[f] = NULL \/ Blank(payload.data[f])
     \/ extractSubscriptionId(payload.data) \notin StoredSubscriptions

\* C20: a step of a delivery of a deactivating event without resolvable
\* subscription id, or with the subscription id of no License, leaves the
\* License table as it was and raises no error; the delivery that holds the
\* reservation returns "deactivated".
C20_UnmatchedDeactivationIsNoOp ==
  [][ \A p \in Deliveries :
        ( /\ delivery[p].pc \notin {"idle", "done"} /\ delivery'[p] # delivery[p]
          /\ DeactivatesNothing(delivery[p].payload) ) =>
          /\ licenses' = licenses
          /\ delivery'[p].error = NoError
          /\ delivery'[p].pc \in {"deactivate", "done"}
          /\ delivery'[p].writes = 0
          /\ (delivery'[p].pc = "done" /\ delivery'[p].won) =>
               delivery'[p].action = "deactivated"
    ]_vars

\* C20 witness: with two Licenses in the table, a subscription.canceled event
\* for a subscription of neither was applied: both are still active.
C20_Witness ==
  /\ delivery[2].pc = "done" /\ delivery[2].won /\ delivery[2].action = "deactivated"
  /\ delivery[2].payload.eventType = "subscription.canceled"
  /\ extractSubscriptionId(delivery[2].payload.data) = "sub_9"
  /\ delivery[2].writes = 0
  /\ Cardinality(licenses) = 2
  /\ \A r \in licenses : r.status = "active"

\* The event type is in neither set of C18.
OtherEventType(eventType) == ActionOfType(eventType) = "ignored"

\* C21: a step of a delivery of an event whose type is neither activating
\* nor deactivating leaves the License table as it was; the delivery that
\* holds the reservation returns "ignored" without error in the step that
\* reserved the event, having written no License row.
C21_OtherTypesIgnored ==
  [][ \A p \in Deliveries :
        ( /\ delivery[p].pc \notin {"idle", "done"} /\ delivery'[p] # delivery[p]
          /\ OtherEventType(delivery[p].payload.eventType) ) =>
          /\ delivery[p].pc = "reserve"
          /\ licenses' = licenses
          /\ delivery'[p].pc = "done"
          /\ delivery'[p].error = NoError
          /\ delivery'[p].writes = 0
          /\ delivery'[p].won => delivery'[p].action = "ignored"
    ]_vars

\* C21 witness: with two active Licenses in the table, an event of type
\* SUBSCRIPTION.CREATED for the subscription of one of them was ignored.
C21_Witness ==
  /\ delivery[2].pc = "done" /\ delivery[2].won /\ delivery[2].action = "ignored"
  /\ delivery[2].payload.eventType = "SUBSCRIPTION.CREATED"
  /\ extractSubscriptionId(delivery[2].payload.data) = "sub_1"
  /\ delivery[2].writes = 0
  /\ Cardinality(licenses) = 2
  /\ \E r \in licenses : r.paddleSubscriptionId = "sub_1"

\* The typed errors of the license module, each with its status.
TypedErrorStatus ==
  [ PADDLE_NOT_CONFIGURED |-> 503, PADDLE_SIGNATURE_MISSING |-> 401,
    PADDLE_SIGNATURE_INVALID |-> 401, PADDLE_SIGNATURE_EXPIRED |-> 401,
    PADDLE_INVALID_PAYLOAD |-> 400, LICENSE_BACKEND_UNAVAILABLE |-> 503,
    PADDLE_SUBSCRIPTION_ID_MISSING |-> 400,
    LICENSE_KEY_GENERATION_FAILED |-> 500 ]

\* The delivery p ends in this step.
Ends(p) == delivery[p].pc # "done" /\ delivery'[p].pc = "done"

\* C22: a delivery that ends with a typed license error is answered with that
\* error's own status and code; a delivery whose License insert was refused
\* by the datastore, an exception that is not a typed license error, is
\* answered 500 PADDLE_PROCESSING_ERROR; a delivery that ends without error
\* is answered with the result.
C22_ErrorsMappedByController ==
  [][ \A p \in Deliveries : Ends(p) =>
        LET e == delivery'[p].error
            r == delivery'[p].response
        IN /\ e = NoError => r = NoResponse
           /\ (e # NoError /\ e.code \in DOMAIN TypedErrorStatus) =>
                 r = HttpException(TypedErrorStatus[e.code], e.code)
           /\ (e # NoError /\ e.code \notin DOMAIN TypedErrorStatus) =>
                 /\ e = DatastoreError
                 /\ r = HttpException(500, "PADDLE_PROCESSING_ERROR")
    ]_vars

\* C22 witness: a delivery was answered 500 PADDLE_PROCESSING_ERROR after the
\* datastore refused its insert, the other delivery having activated the
\* License of the subscription.
C22_Witness ==
  \E p, q \in Deliveries :
    /\ delivery[p].pc = "done" /\ delivery[p].error = DatastoreError
    /\ delivery[p].response = HttpException(500, "PADDLE_PROCESSING_ERROR")
    /\ delivery[q].pc = "done" /\ delivery[q].action = "activated"
    /\ delivery[q].response = NoResponse

\* The caller passed a header of this name in init, in any case of letters.
CallerSet(name) ==
  \E i \in 1..Len(client.init) : toLowerCase(client.init[i][1]) = name

\* Server access is configured, the mode is hosted and the stored license
\* key is not blank.
HostedAccess ==
  /\ client.store.isConfigured
  /\ client.store.mode = "hosted"
  /\ Trim(client.store.licenseKey) # ""

\* C23: the request that reaches fetch carries X-License-Key and X-Device-Id
\* added by the client exactly when server access is configured, the mode is
\* hosted and the stored key is not blank: the key header is then the trimmed
\* key and the device header the device id of the store; otherwise neither is
\* added; and a header the caller set keeps the caller's value.
C23_HostedHeadersAdded ==
  client.fetched =>
    /\ \A name \in {"x-license-key", "x-device-id"} :
         /\ CallerSet(name) =>
              /\ client.headers[name] = NewHeaders(client.init)[name]
              /\ client.headers[name] # NULL
         /\ ~CallerSet(name) => (client.headers[name] # NULL <=> HostedAccess)
    /\ (HostedAccess /\ ~CallerSet("x-license-key")) =>
         client.headers["x-license-key"] = Trim(client.store.licenseKey)
    /\ (HostedAccess /\ ~CallerSet("x-device-id")) =>
         /\ client.headers["x-device-id"] = client.store.deviceId
         /\ Trim(client.store.deviceId) # ""
    /\ client.headers["content-type"] = NewHeaders(client.init)["content-type"]

\* C23 witness: a hosted app with a stored key sent a request whose caller had
\* set X-License-Key itself: the caller's key was kept and the device id
\* added.
C23_Witness ==
  /\ client.fetched /\ HostedAccess
  /\ client.store.licenseKey = " AXON-TEST-KEY "
  /\ client.init = << <<"X-License-Key", "CALLER-KEY">> >>
  /\ client.headers["x-license-key"] = "CALLER-KEY"
  /\ client.headers["x-device-id"] = "device-123"

\* C24: a step of a delivery that inserts or updates a License row is the
\* last step of that delivery and ends it without error; so a delivery that
\* is rolling back or has ended in an error has written no License row, and
\* its rollback leaves the License table as it found it.
C24_FailedDeliveryWroteNothing ==
  [][ \A p \in Deliveries :
        /\ (delivery'[p] # delivery[p] /\ licenses' # licenses) =>
             /\ delivery'[p].pc = "done"
             /\ delivery'[p].error = NoError
             /\ delivery'[p].response = NoResponse
        /\ delivery'[p].writes > 0 =>
             (delivery'[p].pc = "done" /\ delivery'[p].error = NoError)
        /\ (delivery'[p] # delivery[p]
              /\ "rollback" \in {delivery[p].pc, delivery'[p].pc}) =>
             licenses' = licenses
    ]_vars

\* C24 witness: a delivery that held the reservation of its event ended in
\* an error after its rollback: it wrote nothing, its event is not in the
\* ledger, and the License of its subscription is the one the other delivery
\* wrote.
C24_Witness ==
  \E p, q \in Deliveries :
    /\ delivery[p].pc = "done" /\ delivery[p].won /\ delivery[p].error # NoError
    /\ delivery[p].writes = 0
    /\ NoLedgerRow(processedEvents, delivery[p].payload.eventId)
    /\ delivery[q].pc = "done" /\ delivery[q].writes = 1
    /\ Cardinality(licenses) = 1

\* C25: a delivery that was answered ok with action "duplicate" finds the
\* reservation of its event in the ledger for as long as its answer stands:
\* the holder of the reservation has not rolled it back.  Stated for the
\* events that name a subscription, which a correct holder can apply.
C25_DuplicateAnswerMeansApplied ==
  \A q \in Deliveries :
    ( /\ delivery[q].pc = "done" /\ delivery[q].action = "duplicate"
      /\ extractSubscriptionId(delivery[q].payload.data) # NULL ) =>
      ~NoLedgerRow(processedEvents, delivery[q].payload.eventId)

\* C26: every step keeps every License row with its id, its key and its
\* paddleSubscriptionId; the update of a delivery whose select found the
\* License of its subscription adds no row and issues no key; and a row that
\* is added carries a key and a subscription id no row had before.
C26_RowsKeptKeysStable ==
  [][ /\ \A r \in licenses : \E n \in licenses' :
           /\ n.id = r.id /\ n.key = r.key
           /\ n.paddleSubscriptionId = r.paddleSubscriptionId
      /\ \A p \in Deliveries :
           (delivery[p].pc = "update" /\ delivery'[p] # delivery[p]) =>
             /\ Cardinality(licenses') = Cardinality(licenses)
             /\ StoredKeys' = StoredKeys
             /\ delivery'[p].action \in {"activated", "updated"}
      /\ \A n \in licenses' :
           (\A r \in licenses : r.id # n.id) =>
             \A r \in licenses :
               r.key # n.key /\ r.paddleSubscriptionId # n.paddleSubscriptionId
    ]_vars

\* C26 witness: the License of sub_1 was created by one event, updated in
\* place to past_due by a second and is the only row.
C26_Witness ==
  /\ Cardinality(licenses) = 1
  /\ \E r \in licenses : r.paddleSubscriptionId = "sub_1" /\ r.status = "past_due"
  /\ \E p, q \in Deliveries :
       /\ delivery[p].pc = "done" /\ delivery[p].action = "activated"
       /\ delivery[q].pc = "done" /\ delivery[q].action = "updated"
       /\ delivery[q].writes = 1

\* C27: the update of an activating event that carries no email leaves the
\* email of every License as it was immediately before the update.
C27_AbsentEmailKeepsStored ==
  [][ \A p \in Deliveries :
        ( /\ delivery[p].pc = "update" /\ delivery'[p] # delivery[p]
          /\ extractEmail(delivery[p].payload.data) = NULL ) =>
          \A r \in licenses : \E n \in licenses' : n.id = r.id /\ n.email = r.email
    ]_vars

\* The codes of a rejection by the signature verifier.
SignatureCodes ==
  { "PADDLE_NOT_CONFIGURED", "PADDLE_SIGNATURE_MISSING",
    "PADDLE_SIGNATURE_INVALID", "PADDLE_SIGNATURE_EXPIRED" }

\* The body is not a JSON object, or its event_id is blank.
InvalidBody(raw) == raw \in {RawBodyList[7], RawBodyList[8], RawBodyList[9]}

\* C28: a webhook with no secret configured or no signature header is
\* rejected by the verifier whatever its body; a webhook the verifier lets
\* through whose body is invalid is rejected with PADDLE_INVALID_PAYLOAD (400)
\* whether or not a datastore is configured; one with a valid body and no
\* datastore with LICENSE_BACKEND_UNAVAILABLE (503); each of these rejections
\* ends the delivery in the step that received it, with no ledger row
\* inserted and no License row changed; and a delivery that goes on to the
\* reservation passed all three checks.
C28_RejectedBeforeReservation ==
  [][ \A p \in Deliveries : ReceiveStep(p) =>
        LET d == delivery'[p]
            code == d.error.code
        IN /\ (config.PADDLE_WEBHOOK_SECRET \in {NULL, ""}
                \/ d.signatureHeader \in {NULL, ""}) => code \in SignatureCodes
           /\ (code \notin SignatureCodes /\ InvalidBody(d.rawBody)) =>
                d.error = LicenseHttpError(400, "PADDLE_INVALID_PAYLOAD")
           /\ (code \notin SignatureCodes /\ ~InvalidBody(d.rawBody) /\ ~db) =>
                d.error = LicenseHttpError(503, "LICENSE_BACKEND_UNAVAILABLE")
           /\ d.error # NoError =>
                /\ d.pc = "done" /\ ~d.won /\ d.writes = 0
                /\ processedEvents' = processedEvents
                /\ licenses' = licenses
           /\ d.error = NoError =>
                /\ d.pc = "reserve" /\ db /\ ~InvalidBody(d.rawBody)
                /\ d.payload.eventId # "" /\ d.payload.eventType # ""
    ]_vars

\* C28 witness: a body that is not JSON arrived without signature on a
\* deployment with a secret and was rejected for its signature; nothing is
\* in the ledger.
C28_Witness ==
  /\ delivery[1].pc = "done"
  /\ delivery[1].rawBody = RawBodyList[9] /\ delivery[1].signatureHeader = NULL
  /\ delivery[1].error = LicenseHttpError(401, "PADDLE_SIGNATURE_MISSING")
  /\ processedEvents = {} /\ licenses = {}

\* The device limit of a plan as C29 gives it.
DevicesOfPlan(plan) ==
  IF plan \in {"enterprise", "Enterprise", "ENTERPRISE"} THEN 100
  ELSE IF plan \in {"business", "Business", "BUSINESS"} THEN 10
  ELSE 1

\* C29: every License row has the device limit of its plan: 100 for
\* enterprise and 10 for business in any case of letters, 1 for every other
\* plan.
C29_MaxDevicesFollowsPlan ==
  \A r \in licenses : r.maxDevices = DevicesOfPlan(r.plan)

\* C29 witness: the License of sub_1, created with plan pro, was updated to
\* plan BUSINESS and allows 10 devices.
C29_Witness ==
  /\ delivery[1].pc = "done" /\ delivery[1].action = "updated"
  /\ delivery[1].payload.eventId = "evt_11"
  /\ \E e \in processedEvents : e.eventId = "evt_1"
  /\ \E r \in licenses :
       /\ r.paddleSubscriptionId = "sub_1" /\ r.email = "a@x.io"
       /\ r.plan = "BUSINESS" /\ r.maxDevices = 10

\* The ledger row delivery p inserted for its event.
OwnReservation(rows, p) ==
  { e \in rows : e.id = p /\ e.eventId = delivery[p].payload.eventId }

\* C30: the rollback delete of a failed delivery removes exactly one ledger
\* row, the one this delivery inserted; the reservation of every other
\* delivery that is applying its event or has applied it is still in the
\* ledger after the delete.
C30_RollbackRemovesOwnRowOnly ==
  [][ \A p \in Deliveries :
        (delivery[p].pc = "rollback" /\ delivery'[p].pc = "done") =>
          /\ processedEvents \ processedEvents' = OwnReservation(processedEvents, p)
          /\ Cardinality(processedEvents \ processedEvents') = 1
          /\ processedEvents' \subseteq processedEvents
          /\ \A q \in Deliveries \ {p} :
               (delivery[q].won /\ delivery[q].error = NoError) =>
                 OwnReservation(processedEvents', q) # {}
    ]_vars

\* C30 witness: the first delivery of an event failed and deleted its
\* reservation; a second delivery of the same event then took a reservation
\* of its own, which is in the ledger.
C30_Witness ==
  \E p, q \in Deliveries :
    /\ p # q /\ SameEvent(p, q)
    /\ delivery[p].pc = "done" /\ delivery[p].won /\ delivery[p].error # NoError
    /\ delivery[q].won /\ delivery[q].pc = "rollback"
    /\ OwnReservation(processedEvents, q) # {}
    /\ OwnReservation(processedEvents, p) = {}

====
